---- MODULE Spec2Model ----
(***************************************************************************)
(* The execution engine of fsh: the executor (src/src/execute.rs and its   *)
(* later draft crates/fsh-engine/src/exec.rs), the process registry        *)
(* (src/src/process_handler.rs) and the pipe coordinator (src/src/pipe.rs).*)
(*                                                                         *)
(* The shell is single threaded.  A step of the model is one statement of  *)
(* a Sequence, one stage of a pipeline, or the close-and-wait that ends a  *)
(* pipeline.  The children run concurrently, but the shell sees a child    *)
(* exit only in wait and try_wait: whether a poll finds the child exited   *)
(* is drawn at the poll.  The statements of a line and the commands of a     *)
(* pipeline are inputs: their queues hold source positions, and what a     *)
(* statement is, is drawn when the code pops it.                           *)
(*                                                                         *)
(* The variable store, the assignments, the preprocessor and the front end *)
(* (src/src/preprocessor.rs, lexer.rs, parser.rs) are also driven on their *)
(* own, by StoreSpec, AssignSpec, PreSpec and ParseSpec.                   *)
(***************************************************************************)
EXTENDS Integers, Sequences, FiniteSets, TLC

\* ---------------------------------------------------------------- bounds
MaxStmts == 2      \* statements executed in all, in one line or several
MaxStages == 2     \* commands of one pipeline
MaxReg == 3        \* children spawned in all (spawn fails beyond)
MaxOps == 3        \* operations applied to a variable store on its own

\* The operating system: a pid for every child the registry can hold and,
\* beyond 0, 1, 2, a descriptor for every stage of a pipeline.  Both are
\* handed out lowest free number first.
Pids == 1..MaxReg
Fds == 3..(2 + MaxStages)
NoFd == 0 - 1      \* Option<RawFd>::None and Stdio::inherit()

\* ---------------------------------------------------------------- input
Drafts == {"legacy", "engine"}   \* src/src/execute.rs, crates/fsh-engine/src/exec.rs

Str(s) == [t |-> "String", v |-> s]
Ident(s) == [t |-> "Identifier", v |-> s]
Bool(b) == [t |-> "Boolean", v |-> b]
Num(n) == [t |-> "Number", v |-> n]
Fd(n) == [t |-> "FileDescriptor", v |-> n]
Null == [t |-> "Null", v |-> 0]

Dirs == {"/", "/tmp"}            \* the directories that exist
OnPath == {"ls", "cd"}           \* executables a system may have on PATH
NoVal == "<none>"

\* Commands the parser can produce: name, first argument, background flag.
Commands ==
    [name : {Str("ls"), Str("nosuch"), Ident("X")}, arg : {""}, bg : BOOLEAN]
    \cup [name : {Str("cd")}, arg : {"", "/tmp", "/nodir"}, bg : {FALSE}]
    \cup [name : {Str("exit"), Str("abort")}, arg : {""}, bg : {FALSE}]

\* The commands of a pipeline are drawn from the foreground ones.
StageCommands == {c \in Commands : ~c.bg}

Assignments == [identifier : {Ident("X")}, value : {Str("ls")}]

\* ------------------------------------------------------- variable store
\* ShVars(HashMap<String, String>): a key maps to its value, or to NoVal when
\* the map has no entry for it.
Keys == {"", "X", "Y"}
Values == {"", "ls"}

\* ShVars::new
ShVarsNew == [k \in Keys |-> NoVal]

\* ShVars::insert.  src/src/sh_vars.rs refuses an empty key and stores "null"
\* for an empty value; crates/fsh-engine/src/sh_vars.rs inserts what it is given.
ShVarsInsert(d, vs, k, v) ==
    IF d = "legacy"
    THEN IF k = "" THEN [ok |-> FALSE, vars |-> vs]
         ELSE [ok |-> TRUE, vars |-> [vs EXCEPT ![k] = IF v = "" THEN "null" ELSE v]]
    ELSE [ok |-> TRUE, vars |-> [vs EXCEPT ![k] = v]]

\* ShVars::get (NoVal: None, or Err in the engine's store)
ShVarsGet(vs, k) == vs[k]

\* ShVars::remove
ShVarsRemove(vs, k) == [vs EXCEPT ![k] = NoVal]

\* ShVars::len
ShVarsLen(vs) == Cardinality({k \in Keys : vs[k] # NoVal})

\* ------------------------------------------------------ pipe coordinator
NewPipe == [state |-> "Closed", fd |-> NoFd]

OpenPipe == [state |-> "Sendable", fd |-> NoFd]

\* close that changes the state and keeps the descriptor.
PipeCloseKeepsFd(p) ==
    [ok |-> TRUE, pipe |-> [state |-> "Closed", fd |-> p.fd], closed |-> NoFd]

\* Pipe::close: Err (and nothing changed) on a negative descriptor.
PipeClose(p) ==
    IF p.fd # NoFd /\ p.fd < 0
    THEN [ok |-> FALSE, pipe |-> p, closed |-> NoFd]
    ELSE [ok |-> TRUE, pipe |-> [state |-> "Closed", fd |-> NoFd], closed |-> p.fd]

\* Pipe::send
PipeSend(p, fd) ==
    IF p.fd # NoFd THEN [ok |-> FALSE, pipe |-> p]
    ELSE IF p.state = "Sendable"
         THEN [ok |-> TRUE, pipe |-> [state |-> "Recvable", fd |-> fd]]
         ELSE [ok |-> FALSE, pipe |-> p]

\* recv that hands the descriptor out and keeps it.
PipeRecvKeeps(p) ==
    IF p.fd = NoFd THEN [ok |-> FALSE, pipe |-> p, fd |-> NoFd]
    ELSE [ok |-> TRUE, pipe |-> p, fd |-> p.fd]

\* Pipe::recv
PipeRecv(p) ==
    IF p.fd = NoFd THEN [ok |-> FALSE, pipe |-> p, fd |-> NoFd]
    ELSE IF p.state = "Recvable" /\ p.fd >= 0
         THEN [ok |-> TRUE, pipe |-> [state |-> "Sendable", fd |-> NoFd], fd |-> p.fd]
         ELSE [ok |-> FALSE, pipe |-> p, fd |-> NoFd]

\* ------------------------------------------------------ process registry
\* An entry (ManuallyDrop<Child>, is_background): pid, the flag, the parent's
\* end of the child's stdout pipe (Child.stdout), whether the handle has
\* cached an exit status (Child.wait / try_wait returned one) and whether
\* ManuallyDrop::drop has run on the handle.
Entry(pid, bg, out) ==
    [pid |-> pid, bg |-> bg, out |-> out, status |-> FALSE, dropped |-> FALSE]

\* ProcessHandler::push
Push(h, pid, bg, out) == Append(h, Entry(pid, bg, out))

\* ProcessHandler::get: the first entry whose handle reads that pid, 0 when none.
Get(h, pid) ==
    IF \E i \in 1..Len(h) : h[i].pid = pid
    THEN CHOOSE i \in 1..Len(h) : h[i].pid = pid /\ \A j \in 1..(i - 1) : h[j].pid # pid
    ELSE 0

\* One entry of the loop of ProcessHandler::wait.  A live foreground handle is
\* waited on (the call blocks until the child has exited), a live background
\* handle is polled, and `ex` says whether the poll finds that the child has
\* exited; both are then dropped in place, the background one whether or not
\* its child has exited.  A handle dropped before is used again: the drop
\* leaves its memory as it was (ManuallyDrop::drop), so the pid and a cached
\* status are read back, a foreground handle always holds a status by then,
\* and a background handle without one asks the operating system again.
WaitEntry(e, ps, ex) ==
    LET exited == e.status \/ ~e.bg \/ ex
        reaps == ~e.status /\ exited
    IN  [entry |-> [e EXCEPT !.status = exited, !.dropped = TRUE],
         procs |-> IF reaps THEN [ps EXCEPT ![e.pid] = "free"] ELSE ps,
         report |-> exited]

\* The loop with its report built back to front.
RECURSIVE WaitFromReversed(_, _, _, _, _, _)
WaitFromReversed(i, h, ps, fs, v, ex) ==
    IF i > Len(h) THEN [handler |-> h, procs |-> ps, fds |-> fs, v |-> v]
    ELSE LET w == WaitEntry(h[i], ps, i \in ex)
         IN  WaitFromReversed(i + 1, [h EXCEPT ![i] = w.entry], w.procs,
                              fs \ {h[i].out}, IF w.report THEN <<i>> \o v ELSE v, ex)

\* The loop of ProcessHandler::wait from entry i on: insertion order, and no
\* entry is removed.  v lists the registry indexes whose (pid, status) the
\* call returns; dropping a handle closes its stdout descriptor.
RECURSIVE WaitFrom(_, _, _, _, _, _)
WaitFrom(i, h, ps, fs, v, ex) ==
    IF i > Len(h) THEN [handler |-> h, procs |-> ps, fds |-> fs, v |-> v]
    ELSE LET w == WaitEntry(h[i], ps, i \in ex)
         IN  WaitFrom(i + 1, [h EXCEPT ![i] = w.entry], w.procs,
                      fs \ {h[i].out}, IF w.report THEN Append(v, i) ELSE v, ex)

\* ProcessHandler::wait; ex: the polls that find an exited child.
Wait(sh, ex) ==
    LET w == WaitFrom(1, sh.handler, sh.procs, sh.fds, <<>>, ex)
    IN  [sh |-> [sh EXCEPT !.handler = w.handler, !.procs = w.procs, !.fds = w.fds],
         v |-> w.v]

\* The background handles that hold no status: a poll of one of these asks the
\* operating system whether its child has exited.
Polled(h) == {i \in 1..Len(h) : h[i].bg /\ ~h[i].status}

\* ---------------------------------------------------------------- executor
MinOf(S) == CHOOSE f \in S : \A g \in S : f <= g

FreePids(sh) == {p \in Pids : sh.procs[p] = "free"}

\* What the operating system lets spawn() do.  `found` says whether the
\* executable is found and started: a name that is on no PATH never is, cd
\* is an executable on some systems and not on others, and fork or the
\* pre_exec hook may fail.  A pid and, for a piped stdout, a descriptor must
\* be free.
CanSpawn(sh, name, found, piped) ==
    /\ found
    /\ name \in OnPath
    /\ FreePids(sh) # {}
    /\ Len(sh.handler) < MaxReg
    /\ piped => (Fds \ sh.fds) # {}

\* execute_process_command.  stdin takes the coordinator's descriptor when it is
\* Recvable; stdout is piped when the coordinator is Sendable and the command is
\* not the last; the child is started in State.current_dir; the Command owns
\* the stdin descriptor and closes it when it is dropped at the end of the
\* function, spawned or not.  After the push the
\* child is looked up by pid and its stdout, if any, is sent to the coordinator.
ExecuteProcessCommand(sh, name, bg, isLast, found) ==
    LET recvable == sh.pipe.state = "Recvable"
        r == PipeRecv(sh.pipe)
        p1 == IF recvable THEN r.pipe ELSE sh.pipe
        stdin == IF recvable THEN r.fd ELSE NoFd
        piped == p1.state = "Sendable" /\ ~isLast
        ok == CanSpawn(sh, name, found, piped)
        pid == IF ok THEN MinOf(FreePids(sh)) ELSE 0
        out == IF piped /\ ok THEN MinOf(Fds \ sh.fds) ELSE NoFd
        h1 == Push(sh.handler, pid, bg, out)
        g == Get(h1, pid)
        sends == g # 0 /\ h1[g].out # NoFd
        s == PipeSend(p1, h1[g].out)
    IN  IF recvable /\ ~r.ok
        THEN [sh |-> sh, err |-> TRUE, pushed |-> 0, panic |-> TRUE, stdin |-> NoFd,
              workdir |-> NoVal]
        ELSE IF ~ok
        THEN [sh |-> [sh EXCEPT !.pipe = p1, !.fds = sh.fds \ {stdin}],
              err |-> TRUE, pushed |-> 0, panic |-> FALSE, stdin |-> stdin,
              workdir |-> NoVal]
        ELSE [sh |-> [sh EXCEPT !.handler = h1,
                                !.procs = [sh.procs EXCEPT ![pid] = "live"],
                                !.pipe = IF sends /\ s.ok THEN s.pipe ELSE p1,
                                !.fds = (sh.fds \cup ({out} \ {NoFd})) \ {stdin}],
              err |-> FALSE, pushed |-> Len(h1), panic |-> sends /\ ~s.ok,
              stdin |-> stdin, workdir |-> sh.cwd]

\* A resolution that falls back on a command when the store has no entry.
ResolveNameFallback(name, vars) ==
    IF name.t = "String" THEN name.v
    ELSE IF name.t = "Identifier"
    THEN (IF ShVarsGet(vars, name.v) = NoVal THEN "ls" ELSE ShVarsGet(vars, name.v))
    ELSE NoVal

\* The name of a command, in execute_command.
ResolveName(name, vars) ==
    IF name.t = "String" THEN name.v
    ELSE IF name.t = "Identifier" THEN ShVarsGet(vars, name.v)
    ELSE NoVal

\* builtin::cd takes the first argument, "/" when there is none.
CdTarget(arg) == IF arg = "" THEN "/" ELSE arg

\* execute_builtin_command: cd, abort and exit match; anything else is an error.
\* cd fails when the target is no directory; exit and abort end the shell.
ExecuteBuiltinCommand(name, arg) ==
    IF name = "cd"
    THEN [matched |-> TRUE, err |-> CdTarget(arg) \notin Dirs, exits |-> FALSE,
          dir |-> IF CdTarget(arg) \in Dirs THEN CdTarget(arg) ELSE NoVal]
    ELSE IF name \in {"abort", "exit"}
    THEN [matched |-> TRUE, err |-> FALSE, exits |-> TRUE, dir |-> NoVal]
    ELSE [matched |-> FALSE, err |-> TRUE, exits |-> FALSE, dir |-> NoVal]

\* Whether execute_command goes on to execute_process_command once the builtin
\* has returned b: src/src/execute.rs uses or_else (only after an error),
\* crates/fsh-engine/src/exec.rs uses or, whose argument is evaluated whatever
\* the builtin returned.
RunsProcess(d, b) == IF d = "legacy" THEN b.err ELSE TRUE

\* Whether a successful cd stores the resolved path in State.current_dir:
\* builtin::cd(p, state) of builtin/mod.rs does; src/src/execute.rs calls
\* builtin::cd(p, state.current_dir()) of builtin/common.rs and drops the
\* path it returns.
StoresDir(d) == d = "engine"

\* Error { kind, message }; NoError where a function returned Ok.
Error(kind, message) == [kind |-> kind, message |-> message]
NoError == Error("none", "")
NOT_IMPLEMENTED == Error("NotImplemented", "")

\* The error execute_command returns when execute_process_command has failed:
\* src/src/execute.rs maps every error to NOT_IMPLEMENTED;
\* crates/fsh-engine/src/exec.rs maps the NotFound of spawn() to NotFound with
\* "<name>: command not found" and any other error to Other.
ProcessError(d, name, found) ==
    IF d = "legacy" THEN NOT_IMPLEMENTED
    ELSE IF ~found THEN Error("NotFound", name \o ": command not found")
    ELSE Error("Other", "spawn")

\* The error execute_command returns when the name is an Identifier that the
\* store does not hold: NOT_IMPLEMENTED in src/src/execute.rs, the error of
\* ShVars::get in crates/fsh-engine (through extract_command_name).
NameError(d, identifier) ==
    IF d = "legacy" THEN NOT_IMPLEMENTED
    ELSE Error("NotFound", "the key '" \o identifier \o "' does not exist")

\* map_err on what the builtin and the process left: a result r that is an
\* Err holds the error of ProcessError.
MapErr(d, found, r) ==
    IF r.err /\ ~r.panic THEN [r EXCEPT !.error = ProcessError(d, r.name, found)]
    ELSE r

\* execute_command: resolve the name, run the builtin, then the process.
ExecuteCommand(d, sh, vars, cmd, isLast, found) ==
    LET name == ResolveName(cmd.name, vars)
        b == ExecuteBuiltinCommand(name, cmd.arg)
        sh1 == IF b.dir # NoVal /\ StoresDir(d) THEN [sh EXCEPT !.cwd = b.dir] ELSE sh
        p == ExecuteProcessCommand(sh1, name, cmd.bg, isLast, found)
        none == [sh |-> sh, err |-> TRUE, pushed |-> 0, panic |-> FALSE,
                 exits |-> FALSE, dir |-> NoVal, builtin |-> FALSE, stdin |-> NoFd,
                 workdir |-> NoVal, name |-> name, error |-> NoError]
    IN  IF name = NoVal THEN [none EXCEPT !.error = NameError(d, cmd.name.v)]
        ELSE IF b.exits THEN [none EXCEPT !.err = FALSE, !.exits = TRUE, !.builtin = TRUE]
        ELSE IF RunsProcess(d, b)
        THEN MapErr(d, found,
             [sh |-> p.sh, err |-> b.err /\ p.err, pushed |-> p.pushed,
              panic |-> p.panic, exits |-> FALSE, dir |-> b.dir,
              builtin |-> b.matched, stdin |-> p.stdin, workdir |-> p.workdir,
              name |-> name,
              error |-> NoError])
        ELSE [none EXCEPT !.sh = sh1, !.err = FALSE, !.dir = b.dir, !.builtin = TRUE]

\* A command that writes to the store.
CommandVarsWritten(vs, cmd) == ShVarsInsert("legacy", vs, "Y", "ls").vars

\* The store as execute_command leaves it.  The command borrows it mutably
\* but only reads: get for an Identifier name or argument, entries for the
\* child's environment, clone for the pre_exec hook.
CommandVars(vs, cmd) == vs

\* What spawn() may answer for a command: only an executable that a system
\* may have can be found.
Found(cmd, vars) ==
    IF ResolveName(cmd.name, vars) \in OnPath THEN BOOLEAN ELSE {FALSE}

\* to_string of an integer.
Digits == <<"0", "1", "2", "3", "4", "5", "6", "7", "8", "9">>

RECURSIVE Decimal(_)
Decimal(n) ==
    IF n < 0 THEN "-" \o Decimal(0 - n)
    ELSE IF n < 10 THEN Digits[n + 1]
    ELSE Decimal(n \div 10) \o Digits[(n % 10) + 1]

\* The text execute_assignment makes of the value of an assignment.
\* (crates/fsh-engine/src/exec.rs calls extract_assign, which is not among the
\* sources; it is taken to convert alike.)
ValueText(e) ==
    IF e.t = "Null" THEN ""
    ELSE IF e.t = "String" THEN e.v
    ELSE IF e.t = "Boolean" THEN (IF e.v THEN "true" ELSE "false")
    ELSE Decimal(e.v)

\* execute_assignment: the identifier and the text of the value are inserted
\* in the store, and what insert returns is dropped.
ExecuteAssignment(d, vs, a) ==
    ShVarsInsert(d, vs, a.identifier.v, ValueText(a.value)).vars

\* pop_back in the place of pop_front.
PopBack(q) == [item |-> q[Len(q)], rest |-> SubSeq(q, 1, Len(q) - 1)]

\* `sequence.pop_front()` and `pipe.pop_front()`: the queue holds the source
\* positions of the statements (commands) still to run.
PopFront(q) == [item |-> Head(q), rest |-> Tail(q)]

\* An error that does not leave the loop.
Swallow(err, loop) == loop

\* `execute(ast, state, sh_vars)?` and `execute_command(...)?` inside the two
\* while loops: an error leaves the loop and returns to the REPL.
Propagate(err, loop) == IF err THEN "idle" ELSE loop

\* Whether the executor calls handler.wait() after a single command:
\* crates/fsh-engine/src/exec.rs does, src/src/execute.rs does not.
WaitsAfterCommand(d) == d = "engine"

\* ------------------------------------------------------------------ state
VARIABLES
    source,     \* the text handed to the front end (empty where the executor
                \* is given its statements directly)
    toks,       \* the tokens a lexer or Parser::collect has produced
    lexAt,      \* Lexer.index, counted from 1
    draft,      \* which executor runs
    pc,         \* "idle" (REPL), "seq", "pipe", "exited", "panicked"
    budget,     \* statements that may still be executed
    sequence,   \* Statement::Sequence: positions of the statements left
    stages,     \* Statement::Pipe: positions of the commands left
    handler,    \* State.handler, the process registry
    pipe,       \* State.pipe, the pipe coordinator
    vars,       \* ShVars
    cwd,        \* State.current_dir
    oscwd,      \* the working directory of the shell process
    procs,      \* operating system: pid -> "free" | "live" (not reaped yet)
    fds,        \* descriptors open in the shell beyond 0, 1, 2
    result,     \* what execute returned for the line: "none" | "ok" | "err"
    ev,         \* the last step of the executor; ev.v is what wait() returned
    trace,      \* what has run: the positions of the statements executed in
                \* this line (the operations applied, for a store on its own)
    pipeLog     \* StageLog of the children of this pipeline

allvars == <<source, toks, lexAt, draft, pc, budget, sequence, stages, handler, pipe, vars, cwd,
             oscwd, procs, fds, result, ev, trace, pipeLog>>

Sh == [handler |-> handler, pipe |-> pipe, procs |-> procs, fds |-> fds,
       cwd |-> cwd]

Ev(op, err, pushed, builtin, waited, stage, v, workdir) ==
    [op |-> op, err |-> err, pushed |-> pushed, builtin |-> builtin,
     waited |-> waited, stage |-> stage, v |-> v, workdir |-> workdir,
     name |-> NoVal, found |-> FALSE, error |-> NoError]

\* The step of a command that failed: also its resolved name, what spawn()
\* could answer and the error execute_command returned.
EvOf(e, r, found) ==
    IF r.err THEN [e EXCEPT !.name = r.name, !.found = found, !.error = r.error]
    ELSE e

NoEv(op) == Ev(op, FALSE, 0, FALSE, FALSE, 0, <<>>, NoVal)

Positions(n) == [i \in 1..n |-> i]

\* State::new, ShVars::new and the REPL before its first read_line.
ShellInit ==
    /\ draft \in Drafts
    /\ pc = "idle"
    /\ budget = MaxStmts
    /\ sequence = <<>>
    /\ stages = <<>>
    /\ handler = <<>>
    /\ pipe = NewPipe
    /\ vars = ShVarsNew
    /\ cwd = "/"
    /\ oscwd = "/"
    /\ procs = [p \in Pids |-> "free"]
    /\ fds = {}
    /\ result = "none"
    /\ ev = NoEv("none")
    /\ trace = <<>>
    /\ pipeLog = <<>>

\* Lexer::new: nothing read, nothing produced.
LexerNew == toks = <<>> /\ lexAt = 1

Init == ShellInit /\ source = <<>> /\ LexerNew

SetSh(sh) ==
    /\ handler' = sh.handler
    /\ pipe' = sh.pipe
    /\ procs' = sh.procs
    /\ fds' = sh.fds
    /\ cwd' = sh.cwd

\* What a command leaves outside the shell state: a successful cd has changed
\* the working directory of the shell process (env::set_current_dir).
SetDirs(r) == oscwd' = IF r.dir # NoVal THEN r.dir ELSE oscwd

\* The REPL reads a line and the parser returns a Sequence of n statements
\* (one more than may still be executed at most: an error can cut a line short).
ReadLine ==
    /\ pc = "idle"
    /\ budget > 0
    /\ \E n \in 1..(budget + 1) : sequence' = Positions(n)
    /\ pc' = "seq"
    /\ result' = "none"
    /\ trace' = <<>>
    /\ pipeLog' = <<>>
    /\ stages' = <<>>
    /\ ev' = NoEv("read")
    /\ UNCHANGED <<source, toks, lexAt, draft, budget, handler, pipe, vars,
                   cwd, oscwd, procs, fds>>

\* Statement::Assignment
ExecAssignment ==
    /\ pc = "seq"
    /\ sequence # <<>>
    /\ budget > 0
    /\ budget' = budget - 1
    /\ \E a \in Assignments : vars' = ExecuteAssignment(draft, vars, a)
    /\ sequence' = PopFront(sequence).rest
    /\ trace' = Append(trace, PopFront(sequence).item)
    /\ pipeLog' = <<>>
    /\ ev' = NoEv("assign")
    /\ UNCHANGED <<source, toks, lexAt, draft, pc, stages, handler, pipe, cwd,
                   oscwd, procs, fds,
                   result>>

\* Statement::Command (not in a pipeline), is_last = true.
ExecCommand ==
    /\ pc = "seq"
    /\ sequence # <<>>
    /\ budget > 0
    /\ budget' = budget - 1
    /\ \E cmd \in Commands : \E found \in Found(cmd, vars) :
        LET r == ExecuteCommand(draft, Sh, vars, cmd, TRUE, found)
            waits == WaitsAfterCommand(draft) /\ ~r.err /\ ~r.exits /\ ~r.panic
        IN  \E ex \in (IF waits THEN SUBSET Polled(r.sh.handler) ELSE {{}}) :
            LET w == IF waits THEN Wait(r.sh, ex) ELSE [sh |-> r.sh, v |-> <<>>]
            IN
            /\ SetSh(w.sh)
            /\ SetDirs(r)
            /\ pc' = IF r.panic THEN "panicked"
                     ELSE IF r.exits THEN "exited"
                     ELSE Propagate(r.err, "seq")
            /\ result' = IF r.err THEN "err" ELSE result
            /\ ev' = EvOf(Ev("command", r.err, r.pushed, r.builtin, waits, 0,
                             w.v, r.workdir), r, found)
            /\ vars' = CommandVars(vars, cmd)
    /\ sequence' = PopFront(sequence).rest
    /\ trace' = Append(trace, PopFront(sequence).item)
    /\ pipeLog' = <<>>
    /\ UNCHANGED <<source, toks, lexAt, draft, stages>>

\* Statement::Pipe, before its loop: the coordinator is replaced by Pipe::open().
PipeOpen ==
    /\ pc = "seq"
    /\ sequence # <<>>
    /\ budget > 0
    /\ budget' = budget - 1
    /\ \E n \in 2..MaxStages : stages' = Positions(n)
    /\ pipe' = OpenPipe
    /\ pipeLog' = <<>>
    /\ pc' = "pipe"
    /\ sequence' = PopFront(sequence).rest
    /\ trace' = Append(trace, PopFront(sequence).item)
    /\ ev' = NoEv("open")
    /\ UNCHANGED <<source, toks, lexAt, draft, handler, vars, cwd, oscwd,
                   procs, fds, result>>

\* What a spawned stage is remembered by: its place in the pipeline, its
\* registry index, the descriptors the child got as stdin and stdout (NoFd:
\* inherited from the shell), whether no builtin matched its name and whether
\* it was spawned with is_last.
StageLog(k, r, isLast) ==
    [stage |-> k, idx |-> r.pushed, in |-> r.stdin,
     out |-> r.sh.handler[r.pushed].out, ext |-> ~r.builtin, last |-> isLast]

\* One turn of the loop of Statement::Pipe: pop a command and execute it with
\* is_last = pipe.is_empty().
PipeStage ==
    /\ pc = "pipe"
    /\ stages # <<>>
    /\ \E cmd \in StageCommands : \E found \in Found(cmd, vars) :
        LET k == PopFront(stages).item
            rest == PopFront(stages).rest
            r == ExecuteCommand(draft, Sh, vars, cmd, rest = <<>>, found)
        IN  /\ SetSh(r.sh)
            /\ SetDirs(r)
            /\ stages' = rest
            /\ pipeLog' = IF r.pushed # 0
                          THEN Append(pipeLog, StageLog(k, r, rest = <<>>))
                          ELSE pipeLog
            /\ pc' = IF r.panic THEN "panicked"
                     ELSE IF r.exits THEN "exited"
                     ELSE Propagate(r.err, "pipe")
            /\ result' = IF r.err THEN "err" ELSE result
            /\ ev' = EvOf(Ev("stage", r.err, r.pushed, r.builtin, FALSE, k, <<>>,
                             r.workdir), r, found)
            /\ vars' = CommandVars(vars, cmd)
    /\ UNCHANGED <<source, toks, lexAt, draft, budget, sequence, trace>>

\* After the loop of Statement::Pipe: close the coordinator, then wait().
PipeFinish ==
    /\ pc = "pipe"
    /\ stages = <<>>
    /\ \E ex \in SUBSET Polled(handler) :
        LET c == PipeClose(pipe)
            sh1 == [Sh EXCEPT !.pipe = c.pipe, !.fds = fds \ {c.closed}]
            w == IF c.ok THEN Wait(sh1, ex) ELSE [sh |-> sh1, v |-> <<>>]
        IN  /\ SetSh(w.sh)
            /\ pc' = Propagate(~c.ok, "seq")
            /\ result' = IF c.ok THEN result ELSE "err"
            /\ ev' = Ev("finish", ~c.ok, 0, FALSE, c.ok, 0, w.v, NoVal)
    /\ UNCHANGED <<source, toks, lexAt, draft, budget, sequence, stages, vars,
                   oscwd, trace, pipeLog>>

\* The loop of Statement::Sequence has run dry: execute returns Ok(()).
SeqDone ==
    /\ pc = "seq"
    /\ sequence = <<>>
    /\ pc' = "idle"
    /\ result' = "ok"
    /\ pipeLog' = <<>>
    /\ ev' = NoEv("done")
    /\ UNCHANGED <<source, toks, lexAt, draft, budget, sequence, stages,
                   handler, pipe, vars, cwd,
                   oscwd, procs, fds, trace>>

Next ==
    \/ ReadLine
    \/ ExecAssignment
    \/ ExecCommand
    \/ PipeOpen
    \/ PipeStage
    \/ PipeFinish
    \/ SeqDone

Spec == Init /\ [][Next]_allvars

\* ------------------------------------------------- the store on its own
\* A variable store driven directly through its interface: any sequence of
\* insert and remove, each recorded in trace with what it returned.
StoreIdle ==
    UNCHANGED <<source, toks, lexAt, draft, pc, budget, sequence, stages,
                handler, pipe, cwd, oscwd,
                procs, fds, result, ev, pipeLog>>

StoreInsert ==
    /\ Len(trace) < MaxOps
    /\ \E k \in Keys : \E v \in Values :
        LET r == ShVarsInsert(draft, vars, k, v)
        IN  /\ vars' = r.vars
            /\ trace' = Append(trace, [op |-> "insert", key |-> k, value |-> v,
                                       ok |-> r.ok])
    /\ StoreIdle

StoreRemove ==
    /\ Len(trace) < MaxOps
    /\ \E k \in Keys :
        /\ vars' = ShVarsRemove(vars, k)
        /\ trace' = Append(trace, [op |-> "remove", key |-> k, value |-> "",
                                   ok |-> TRUE])
    /\ StoreIdle

StoreNext == StoreInsert \/ StoreRemove

StoreSpec == Init /\ [][StoreNext]_allvars

\* ------------------------------------------- assignments on their own
\* Assignment statements of every kind of value, executed one after another;
\* trace records them.
AssignValues ==
    {Null, Str("ls"), Str(""), Bool(TRUE), Bool(FALSE), Num(0), Num(12), Fd(1)}

AllAssignments == [identifier : {Ident("X"), Ident("Y")}, value : AssignValues]

AssignStep ==
    /\ Len(trace) < MaxOps
    /\ \E a \in AllAssignments :
        /\ vars' = ExecuteAssignment(draft, vars, a)
        /\ trace' = Append(trace, a)
    /\ StoreIdle

AssignNext == AssignStep

AssignSpec == Init /\ [][AssignNext]_allvars

\* ------------------------------------------- the coordinator on its own
\* A pipe coordinator driven directly through its interface: any sequence of
\* new, open, send, recv and close, each recorded in trace with the
\* descriptor given or returned and whether it returned Ok.
BadFd == 0 - 2     \* a RawFd that is no descriptor

CoordIdle ==
    UNCHANGED <<source, toks, lexAt, draft, pc, budget, sequence, stages,
                handler, vars, cwd, oscwd, procs, fds, result, ev, pipeLog>>

CoordOp(op, fd, ok) == [op |-> op, fd |-> fd, ok |-> ok]

CoordNew ==
    /\ Len(trace) < MaxOps
    /\ pipe' = NewPipe
    /\ trace' = Append(trace, CoordOp("new", NoFd, TRUE))
    /\ CoordIdle

CoordOpen ==
    /\ Len(trace) < MaxOps
    /\ pipe' = OpenPipe
    /\ trace' = Append(trace, CoordOp("open", NoFd, TRUE))
    /\ CoordIdle

CoordSend ==
    /\ Len(trace) < MaxOps
    /\ \E fd \in Fds \cup {BadFd} :
        LET r == PipeSend(pipe, fd)
        IN  /\ pipe' = r.pipe
            /\ trace' = Append(trace, CoordOp("send", fd, r.ok))
    /\ CoordIdle

CoordRecv ==
    /\ Len(trace) < MaxOps
    /\ LET r == PipeRecv(pipe)
       IN  /\ pipe' = r.pipe
           /\ trace' = Append(trace, CoordOp("recv", r.fd, r.ok))
    /\ CoordIdle

CoordClose ==
    /\ Len(trace) < MaxOps
    /\ LET r == PipeClose(pipe)
       IN  /\ pipe' = r.pipe
           /\ trace' = Append(trace, CoordOp("close", r.closed, r.ok))
    /\ CoordIdle

CoordNext == CoordNew \/ CoordOpen \/ CoordSend \/ CoordRecv \/ CoordClose

CoordSpec == Init /\ [][CoordNext]_allvars

\* ------------------------------------------------------- the preprocessor
\* A text is a sequence of characters, each a string of length one.
MaxLen == 4        \* characters of a text handed to preprocess on its own

Chars == {"a", "#", ";", "\n", "'", " "}

Texts == UNION {[1..n -> Chars] : n \in 0..MaxLen}

Quotes == {"'", "\""}
Whitespace == {" ", "\t", "\n", "\r"}       \* char::is_whitespace, in ASCII

\* remove_comments (remove_comment in crates/fsh-parser): the fold over the
\* characters from position i on, with its two flags.
RECURSIVE RemoveCommentsFrom(_, _, _, _)
RemoveCommentsFrom(s, i, is_comment, is_quote) ==
    IF i > Len(s) THEN <<>>
    ELSE LET c == s[i]
             quote == IF c \in Quotes THEN ~is_quote ELSE is_quote
             comment == IF c = "#" /\ ~quote THEN TRUE ELSE is_comment
             kept == IF comment THEN <<>> ELSE <<c>>
             after == IF c \in {"\r", "\n", ";"} THEN FALSE ELSE comment
         IN  kept \o RemoveCommentsFrom(s, i + 1, after, quote)

RemoveComments(s) == RemoveCommentsFrom(s, 1, FALSE, FALSE)

\* str::lines: the pieces between line feeds, without a last empty piece.
RECURSIVE Lines(_)
Lines(s) ==
    IF s = <<>> THEN <<>>
    ELSE IF \E i \in 1..Len(s) : s[i] = "\n"
         THEN LET i == CHOOSE j \in 1..Len(s) :
                          s[j] = "\n" /\ \A k \in 1..(j - 1) : s[k] # "\n"
              IN  <<SubSeq(s, 1, i - 1)>> \o Lines(SubSeq(s, i + 1, Len(s)))
         ELSE <<s>>

\* line.trim().is_empty()
IsBlank(line) == \A i \in 1..Len(line) : line[i] \in Whitespace

\* The lines pushed one after another with a line feed between them.
RECURSIVE JoinLines(_)
JoinLines(ls) ==
    IF ls = <<>> THEN <<>>
    ELSE IF Len(ls) = 1 THEN ls[1]
    ELSE ls[1] \o <<"\n">> \o JoinLines(Tail(ls))

\* remove_empty_line
RemoveEmptyLine(s) == JoinLines(SelectSeq(Lines(s), LAMBDA l : ~IsBlank(l)))

\* replace_line_with_semicolon
ReplaceLineWithSemicolon(s) == [i \in 1..Len(s) |-> IF s[i] = "\n" THEN ";" ELSE s[i]]

\* The loop that ends preprocess in src/src/preprocessor.rs, and the loop of
\* semicolon_cleanup: of a run of ';' the first is kept.
CollapseSemicolons(s) ==
    LET keep == {i \in 1..Len(s) : ~(s[i] = ";" /\ i > 1 /\ s[i - 1] = ";")}
        Nth(n) == CHOOSE i \in keep : Cardinality({j \in keep : j < i}) = n - 1
    IN  [n \in 1..Cardinality(keep) |-> s[Nth(n)]]

\* semicolon_cleanup: the runs collapsed, then one leading ';' removed.
SemicolonCleanup(s) ==
    LET r == CollapseSemicolons(s)
    IN  IF r # <<>> /\ r[1] = ";" THEN Tail(r) ELSE r

\* preprocess, of src/src/preprocessor.rs and of crates/fsh-parser/src/preprocess.rs
Preprocess(d, s) ==
    LET lined == ReplaceLineWithSemicolon(RemoveEmptyLine(RemoveComments(s)))
    IN  IF d = "legacy" THEN CollapseSemicolons(lined) ELSE SemicolonCleanup(lined)

\* preprocess applied to a text, then to what it returned: trace holds what
\* the applications returned.
PreInit == ShellInit /\ source \in Texts /\ LexerNew

PreprocessStep ==
    /\ Len(trace) < 2
    /\ trace' = Append(trace, Preprocess(draft, IF trace = <<>> THEN source
                                                 ELSE trace[Len(trace)]))
    /\ UNCHANGED vars
    /\ StoreIdle

PreNext == PreprocessStep

PreSpec == PreInit /\ [][PreNext]_allvars

\* ----------------------------------------------------------- the lexer
\* src/src/lexer.rs.  A token is a record: its kind and, for the kinds that
\* carry one, its payload (a text, a number, a boolean).
Tok(t) == [t |-> t, v |-> 0]

EOF == Tok("EOF")
Semicolon == Tok("Semicolon")
Ampersand == Tok("Ampersand")
Pipe == Tok("Pipe")
Equal == Tok("Equal")
LessThan == Tok("LessThan")
GreaterThan == Tok("GreaterThan")

RESERVED_KEYWORDS == {"null", "true", "false"}
RESERVED_CHARS == {";", "&", "$", "@", "=", "|", "<", ">", "'", "\""}

IsNumeric(c) == \E n \in 1..10 : Digits[n] = c
IsAlphabetic(c) ==
    c \in {"a", "b", "c", "d", "e", "f", "g", "h", "i", "j", "k", "l", "m",
           "n", "o", "p", "q", "r", "s", "t", "u", "v", "w", "x", "y", "z",
           "A", "B", "C", "D", "E", "F", "G", "H", "I", "J", "K", "L", "M",
           "N", "O", "P", "Q", "R", "S", "T", "U", "V", "W", "X", "Y", "Z"}
IsWhitespace(c) == c \in Whitespace
IsWord(c) == ~IsWhitespace(c) /\ c \notin RESERVED_CHARS

\* read_while: the index where the run of characters that satisfy the
\* condition, started at i, ends; holds[k] tells whether s[k] satisfies it.
ReadWhile(s, i, holds) ==
    CHOOSE j \in i..(Len(s) + 1) :
        /\ j = Len(s) + 1 \/ ~holds[j]
        /\ \A k \in i..(j - 1) : holds[k]

\* collect::<String>() of a run of characters
RECURSIVE Text(_)
Text(cs) == IF cs = <<>> THEN "" ELSE cs[1] \o Text(Tail(cs))

\* str::parse of a run of digits
RECURSIVE ParseDigits(_)
ParseDigits(cs) ==
    IF cs = <<>> THEN 0
    ELSE ParseDigits(SubSeq(cs, 1, Len(cs) - 1)) * 10
         + ((CHOOSE n \in 1..10 : Digits[n] = cs[Len(cs)]) - 1)

\* string.parse::<isize>().is_ok(): digits after an optional sign
IsInteger(cs) ==
    LET ds == IF cs # <<>> /\ cs[1] \in {"+", "-"} THEN Tail(cs) ELSE cs
    IN  ds # <<>> /\ \A i \in 1..Len(ds) : IsNumeric(ds[i])

LexErr == [ok |-> FALSE, tok |-> EOF, idx |-> 0]

\* A token returned with its last character left unread.
LexOkUnread(tok, idx) == [ok |-> TRUE, tok |-> tok, idx |-> idx - 1]

LexOk(tok, idx) == [ok |-> TRUE, tok |-> tok, idx |-> idx]

\* read_keyword_token
ReadKeywordToken(s, i) ==
    LET j == ReadWhile(s, i, [k \in 1..Len(s) |-> IsAlphabetic(s[k])])
        string == Text(SubSeq(s, i, j - 1))
    IN  IF string = "null" THEN LexOk(Null, j)
        ELSE IF string = "true" THEN LexOk(Bool(TRUE), j)
        ELSE IF string = "false" THEN LexOk(Bool(FALSE), j)
        ELSE LexErr

\* read_string_token
ReadStringToken(s, i) ==
    LET j == ReadWhile(s, i, [k \in 1..Len(s) |-> IsWord(s[k])])
        cs == SubSeq(s, i, j - 1)
    IN  IF cs = <<>> \/ IsInteger(cs) \/ Text(cs) \in RESERVED_KEYWORDS
        THEN LexErr
        ELSE LexOk(Str(Text(cs)), j)

\* read_quoted_string_token
ReadQuotedStringToken(s, i) ==
    LET quote == s[i]
        NotQuote(c) == c # quote
        j == ReadWhile(s, i + 1, [k \in 1..Len(s) |-> NotQuote(s[k])])
    IN  IF j > Len(s) THEN LexErr
        ELSE LexOk(Str(Text(SubSeq(s, i + 1, j - 1))), j + 1)

\* read_identifier_token
ReadIdentifierToken(s, i) ==
    LET j == ReadWhile(s, i + 1, [k \in 1..Len(s) |-> IsWord(s[k])])
    IN  IF j = i + 1 THEN LexErr
        ELSE LexOk(Ident(Text(SubSeq(s, i + 1, j - 1))), j)

\* read_number_token
ReadNumberToken(s, i) ==
    LET j == ReadWhile(s, i, [k \in 1..Len(s) |-> IsNumeric(s[k])])
    IN  LexOk(Num(ParseDigits(SubSeq(s, i, j - 1))), j)

\* read_filedescriptor_token
ReadFiledescriptorToken(s, i) ==
    LET j == ReadWhile(s, i + 1, [k \in 1..Len(s) |-> IsNumeric(s[k])])
    IN  IF j = i + 1 THEN LexErr
        ELSE LexOk(Fd(ParseDigits(SubSeq(s, i + 1, j - 1))), j)

\* Lexer::next, the lexer standing at index i of its source
LexNext(s, i) ==
    LET k == ReadWhile(s, i, [n \in 1..Len(s) |-> IsWhitespace(s[n])])
    IN  IF k > Len(s) THEN LexOk(EOF, k)
        ELSE LET c == s[k]
             IN  IF c = ";" THEN LexOk(Semicolon, k + 1)
                 ELSE IF c = "&" THEN LexOk(Ampersand, k + 1)
                 ELSE IF c = "|" THEN LexOk(Pipe, k + 1)
                 ELSE IF c = "=" THEN LexOk(Equal, k + 1)
                 ELSE IF c = "<" THEN LexOk(LessThan, k + 1)
                 ELSE IF c = ">" THEN LexOk(GreaterThan, k + 1)
                 ELSE IF c = "$" THEN ReadIdentifierToken(s, k)
                 ELSE IF c = "@" THEN ReadFiledescriptorToken(s, k)
                 ELSE IF c \in Quotes THEN ReadQuotedStringToken(s, k)
                 ELSE IF IsNumeric(c) THEN ReadNumberToken(s, k)
                 ELSE IF ReadKeywordToken(s, k).ok THEN ReadKeywordToken(s, k)
                 ELSE ReadStringToken(s, k)

\* ------------------------------------------------- the lexer of the engine
\* crates/fsh-parser/src/lexer.rs.  position + 1 is the index i; a read_*
\* function returns Ok(Some(v)), Ok(None) or Err, and the position it leaves.
RESERVED_SYMBOLS == {";", "=", "\\", "'", "\"", "&", "$", "@", "|", ">", "<"}

Assign == Tok("Assign")
Gt == Tok("Gt")
Lt == Tok("Lt")

IsAlphanumeric(c) == IsAlphabetic(c) \/ IsNumeric(c)
IsFree(c) == ~IsWhitespace(c) /\ c \notin RESERVED_SYMBOLS

\* str::parse::<usize>: digits after an optional '+'
IsUnsigned(cs) ==
    LET ds == IF cs # <<>> /\ cs[1] = "+" THEN Tail(cs) ELSE cs
    IN  ds # <<>> /\ \A i \in 1..Len(ds) : IsNumeric(ds[i])

Unsigned(cs) == ParseDigits(IF cs[1] = "+" THEN Tail(cs) ELSE cs)

ReadSome(v, idx) == [res |-> "some", v |-> v, idx |-> idx]
ReadNone(idx) == [res |-> "none", v |-> 0, idx |-> idx]
ReadErr(idx) == [res |-> "err", v |-> 0, idx |-> idx]

\* read_string
ReadString(s, i) ==
    IF i > Len(s) THEN ReadNone(i)
    ELSE LET quoted == s[i] \in Quotes
             from == IF quoted THEN i + 1 ELSE i
             j == ReadWhile(s, from, [k \in 1..Len(s) |->
                                         IF quoted THEN s[k] # s[i] ELSE IsFree(s[k])])
             string == SubSeq(s, from, j - 1)
         IN  IF quoted /\ (j > Len(s) \/ s[j] # s[i]) THEN ReadErr(i)
             ELSE IF ~quoted /\ string = <<>> THEN ReadNone(i)
             ELSE ReadSome(Text(string), IF quoted THEN j + 1 ELSE j)

\* read_number
ReadNumber(s, i) ==
    IF i > Len(s) THEN ReadNone(i)
    ELSE IF ~IsNumeric(s[i]) THEN ReadErr(i)
    ELSE LET j == ReadWhile(s, i, [k \in 1..Len(s) |-> IsFree(s[k])])
             string == SubSeq(s, i, j - 1)
         IN  IF IsUnsigned(string) THEN ReadSome(Unsigned(string), j) ELSE ReadErr(i)

\* read_ident
ReadIdent(s, i) ==
    IF i > Len(s) THEN ReadNone(i)
    ELSE IF s[i] # "$" THEN ReadErr(i)
    ELSE LET j == ReadWhile(s, i + 1, [k \in 1..Len(s) |-> IsFree(s[k])])
             string == SubSeq(s, i + 1, j - 1)
         IN  IF string = <<>> THEN ReadErr(i)
             ELSE IF ~IsAlphabetic(string[1]) THEN ReadErr(i)
             ELSE IF ~IsAlphanumeric(string[Len(string)]) THEN ReadErr(i)
             ELSE ReadSome(Text(string), j)

\* read_fd
ReadFd(s, i) ==
    IF i > Len(s) THEN ReadNone(i)
    ELSE IF s[i] # "@" THEN ReadErr(i)
    ELSE LET j == ReadWhile(s, i + 1, [k \in 1..Len(s) |-> IsFree(s[k])])
             string == SubSeq(s, i + 1, j - 1)
         IN  IF IsUnsigned(string) THEN ReadSome(Unsigned(string), j) ELSE ReadErr(i)

\* The arms of read for '@' and '$': what the read_* function r returned, or
\* the symbol itself as a String when it stands alone.
ReadSymbol(s, k, r, token) ==
    IF r.res = "some" THEN LexOk(token, r.idx)
    ELSE IF r.res = "none" THEN LexOk(EOF, r.idx)
    ELSE IF k + 1 > Len(s) \/ IsWhitespace(s[k + 1]) THEN LexOk(Str(s[k]), k + 1)
    ELSE LexErr

\* read, the lexer standing at index i of its source
Read(s, i) ==
    LET k == ReadWhile(s, i, [n \in 1..Len(s) |-> IsWhitespace(s[n])])
    IN  IF k > Len(s) THEN LexOk(EOF, k)
        ELSE LET c == s[k]
                 string == ReadString(s, k)
                 number == ReadNumber(s, k)
             IN  IF c = ";" THEN LexOk(Semicolon, k + 1)
                 ELSE IF c = "=" THEN LexOk(Assign, k + 1)
                 ELSE IF c = "&" THEN LexOk(Ampersand, k + 1)
                 ELSE IF c = "|" THEN LexOk(Pipe, k + 1)
                 ELSE IF c = ">" THEN LexOk(Gt, k + 1)
                 ELSE IF c = "<" THEN LexOk(Lt, k + 1)
                 ELSE IF c = "@"
                 THEN ReadSymbol(s, k, ReadFd(s, k), Fd(ReadFd(s, k).v))
                 ELSE IF c = "$"
                 THEN ReadSymbol(s, k, ReadIdent(s, k), Ident(ReadIdent(s, k).v))
                 ELSE IF c \in Quotes
                 THEN IF string.res = "some" THEN LexOk(Str(string.v), string.idx)
                      ELSE IF string.res = "none" THEN LexOk(EOF, string.idx)
                      ELSE LexErr
                 ELSE IF IsNumeric(c) /\ number.res = "some"
                 THEN LexOk(Num(number.v), number.idx)
                 ELSE IF IsNumeric(c) /\ number.res = "none"
                 THEN LexOk(EOF, number.idx)
                 ELSE IF string.res = "some" THEN LexOk(Str(string.v), string.idx)
                 ELSE IF string.res = "none" THEN LexOk(EOF, string.idx)
                 ELSE IF IsNumeric(c) \/ k + 1 <= Len(s) THEN LexErr
                 ELSE LexOk(EOF, k)

\* ------------------------------------------------------ tokenize on its own
\* Lexer::new(text).tokenize() of either lexer, an iteration of its loop at a
\* time: toks is the vector `tokens`, lexAt the lexer's position, and result
\* tells how tokenize returned.
MaxChars == 3      \* characters of a text given to a lexer

LexChars == {"a", "1", "-", "@", "$", ";", "'", " ", "\\"}

LexTexts == UNION {[1..n -> LexChars] : n \in 0..MaxChars}

\* Lexer::new: the legacy lexer takes the characters of its argument, the
\* engine's preprocesses them.
TokenizeInit ==
    /\ ShellInit
    /\ \E text \in LexTexts :
           source = IF draft = "legacy" THEN text ELSE Preprocess("engine", text)
    /\ LexerNew

TokenizeStep ==
    /\ pc = "idle"
    /\ result = "none"
    /\ LET r == IF draft = "legacy" THEN LexNext(source, lexAt)
                ELSE Read(source, lexAt)
           again == /\ draft = "engine"
                    /\ r.tok = Semicolon
                    /\ toks # <<>> /\ toks[Len(toks)] = Semicolon
       IN  IF ~r.ok
           THEN result' = "err" /\ UNCHANGED <<toks, lexAt>>
           ELSE /\ lexAt' = r.idx
                /\ toks' = IF again THEN toks ELSE Append(toks, r.tok)
                /\ result' = IF r.tok = EOF THEN "ok" ELSE "none"
    /\ UNCHANGED <<source, draft, pc, budget, sequence, stages, handler, pipe,
                   vars, cwd, oscwd, procs, fds, ev, trace, pipeLog>>

TokenizeNext == TokenizeStep

TokenizeSpec == TokenizeInit /\ [][TokenizeNext]_allvars

\* The loop of tokenize runs on the shell's one thread and waits for nothing:
\* an iteration that can be taken is taken.
TokenizeFairSpec == TokenizeSpec /\ WF_allvars(TokenizeStep)

\* ----------------------------------------------------------- the parser
\* src/src/parser.rs.  What a parse function returns: res is "ok", "err"
\* (Err(..)) or "panic" (an index out of the bounds of a slice).
Ok(v) == [res |-> "ok", v |-> v]
Err == [res |-> "err", v |-> <<>>]
Panic == [res |-> "panic", v |-> <<>>]

Assignment(identifier, value) ==
    [kind |-> "Assignment", identifier |-> identifier, value |-> value]

Command(name, arguments, redirects, background) ==
    [kind |-> "Command", name |-> name, arguments |-> arguments,
     redirects |-> redirects, background |-> background]

PipeOf(commands) == [kind |-> "Pipe", commands |-> commands]

Redirect(operator, left, right) ==
    [operator |-> operator, left |-> left, right |-> right]

\* parse_assignment_value
ParseAssignmentValue(token) ==
    IF token.t \in {"Null", "String", "Boolean", "Number", "FileDescriptor"}
    THEN Ok(token) ELSE Err

\* lite_parser::parse_assignment
LiteParseAssignment(tokens) ==
    IF tokens[2] # Equal THEN Err
    ELSE IF tokens[1].t # "Identifier" THEN Err
    ELSE IF ParseAssignmentValue(tokens[3]).res # "ok" THEN Err
    ELSE Ok(Assignment(tokens[1], tokens[3]))

\* parse_redirect_right
ParseRedirectRight(token) ==
    IF token.t \in {"String", "Identifier", "Number", "FileDescriptor"}
    THEN Ok(token) ELSE Err

\* A redirect whose implicit descriptors are exchanged.
ParseRedirectSwapped(tokens) ==
    IF Len(tokens) = 2
    THEN IF tokens[1] \notin {GreaterThan, LessThan} THEN Err
         ELSE IF ParseRedirectRight(tokens[2]).res # "ok" THEN Err
         ELSE Ok(Redirect(tokens[1].t,
                          Fd(IF tokens[1] = GreaterThan THEN 0 ELSE 1), tokens[2]))
    ELSE Err

\* parse_redirect, of the two tokens or the three tokens it is given
ParseRedirect(tokens) ==
    IF Len(tokens) = 2
    THEN IF tokens[1] \notin {GreaterThan, LessThan} THEN Err
         ELSE IF ParseRedirectRight(tokens[2]).res # "ok" THEN Err
         ELSE Ok(Redirect(tokens[1].t,
                          Fd(IF tokens[1] = GreaterThan THEN 1 ELSE 0), tokens[2]))
    ELSE IF Len(tokens) = 3
    THEN IF tokens[2] \notin {GreaterThan, LessThan} THEN Err
         ELSE IF tokens[1].t # "FileDescriptor" THEN Err
         ELSE IF ParseRedirectRight(tokens[3]).res # "ok" THEN Err
         ELSE Ok(Redirect(tokens[2].t, tokens[1], tokens[3]))
    ELSE Err

\* parse_command_name
ParseCommandName(token) ==
    IF token.t \in {"String", "Identifier", "Number"} THEN Ok(token) ELSE Err

\* A match that takes a FileDescriptor token for an argument.
TokenArmLoose(token) ==
    IF token \in {GreaterThan, LessThan} THEN "abbreviated"
    ELSE IF token = Ampersand THEN "background"
    ELSE IF token.t \in {"Number", "Identifier", "String", "FileDescriptor"}
    THEN "argument"
    ELSE "error"

\* `match token` in parse_command_arguments: the arm that takes the token,
\* "error" when the last arm cannot make an argument of it.
TokenArm(token) ==
    IF token \in {GreaterThan, LessThan} THEN "abbreviated"
    ELSE IF token.t = "FileDescriptor" THEN "normal"
    ELSE IF token = Ampersand THEN "background"
    ELSE IF token.t \in {"Number", "Identifier", "String"} THEN "argument"
    ELSE "error"

\* parse_command_arguments: the loop from the token at i on
RECURSIVE ParseCommandArgumentsFrom(_, _, _, _)
ParseCommandArgumentsFrom(tokens, i, arguments, redirects) ==
    IF i > Len(tokens)
    THEN Ok([arguments |-> arguments, redirects |-> redirects, background |-> FALSE])
    ELSE LET token == tokens[i]
             arm == TokenArm(token)
         IN  IF arm = "abbreviated"
             THEN IF i + 1 > Len(tokens) THEN Panic
                  ELSE LET r == ParseRedirect(SubSeq(tokens, i, i + 1))
                       IN  IF r.res # "ok" THEN r
                           ELSE ParseCommandArgumentsFrom(tokens, i + 2, arguments,
                                                          Append(redirects, r.v))
             ELSE IF arm = "normal"
             THEN IF i + 2 > Len(tokens) THEN Panic
                  ELSE LET r == ParseRedirect(SubSeq(tokens, i, i + 2))
                       IN  IF r.res # "ok" THEN r
                           ELSE ParseCommandArgumentsFrom(tokens, i + 3, arguments,
                                                          Append(redirects, r.v))
             ELSE IF arm = "background"
             THEN IF i = Len(tokens)
                  THEN Ok([arguments |-> arguments, redirects |-> redirects,
                           background |-> TRUE])
                  ELSE Err
             ELSE IF arm = "argument"
             THEN ParseCommandArgumentsFrom(tokens, i + 1, Append(arguments, token),
                                            redirects)
             ELSE Err

\* A command that is never put in the background.
LiteParseCommandForeground(tokens) ==
    IF tokens = <<>> THEN Panic
    ELSE IF ParseCommandName(tokens[1]).res # "ok" THEN Err
    ELSE LET r == ParseCommandArgumentsFrom(Tail(tokens), 1, <<>>, <<>>)
         IN  IF r.res # "ok" THEN r
             ELSE Ok(Command(tokens[1], r.v.arguments, r.v.redirects, FALSE))

\* lite_parser::parse_command
LiteParseCommand(tokens) ==
    IF tokens = <<>> THEN Panic
    ELSE IF ParseCommandName(tokens[1]).res # "ok" THEN Err
    ELSE LET r == ParseCommandArgumentsFrom(Tail(tokens), 1, <<>>, <<>>)
         IN  IF r.res # "ok" THEN r
             ELSE Ok(Command(tokens[1], r.v.arguments, r.v.redirects, r.v.background))

\* split
Split(place, tokens) ==
    IF \E i \in 1..Len(tokens) : tokens[i] = place
    THEN LET pos == CHOOSE i \in 1..Len(tokens) :
                        tokens[i] = place /\ \A j \in 1..(i - 1) : tokens[j] # place
         IN  <<SubSeq(tokens, 1, pos - 1), SubSeq(tokens, pos + 1, Len(tokens))>>
    ELSE <<tokens, <<>>>>

\* recursion_split
RECURSIVE RecursionSplit(_, _)
RecursionSplit(place, tokens) ==
    LET left == Split(place, tokens)[1]
        right == Split(place, tokens)[2]
    IN  IF right = <<>> THEN <<left>>
        ELSE <<left>> \o RecursionSplit(place, right)

\* The loop of lite_parser::parse_pipe: a command of every segment, the first
\* failure returned.
RECURSIVE ParseSegments(_, _)
ParseSegments(segments, cmds) ==
    IF segments = <<>> THEN Ok(PipeOf(cmds))
    ELSE LET r == LiteParseCommand(segments[1])
         IN  IF r.res # "ok" THEN r
             ELSE ParseSegments(Tail(segments), Append(cmds, r.v))

\* lite_parser::parse_pipe
LiteParsePipe(tokens) ==
    IF Len(tokens) < 3 THEN Err
    ELSE ParseSegments(RecursionSplit(Pipe, tokens), <<>>)

\* Parser::collect: the tokens up to the next Semicolon or EOF, the lexer
\* starting at index i of the source.
RECURSIVE Collect(_, _, _)
Collect(s, i, tokens) ==
    LET r == LexNext(s, i)
    IN  IF ~r.ok THEN [res |-> "err", tokens |-> <<>>, idx |-> i]
        ELSE IF r.tok \in {Semicolon, EOF}
        THEN [res |-> "ok", tokens |-> tokens, idx |-> r.idx]
        ELSE Collect(s, r.idx, Append(tokens, r.tok))

\* Parser::parse_assignment
ParserParseAssignment(tokens, index) ==
    IF index + 3 > Len(tokens) THEN Err
    ELSE LiteParseAssignment(SubSeq(tokens, index + 1, index + 3))

\* Parser::parse_command (tokens.get(index..length - index))
ParserParseCommand(tokens, index) ==
    IF index > Len(tokens) - index THEN Err
    ELSE LiteParseCommand(SubSeq(tokens, index + 1, Len(tokens) - index))

\* Parser::parse_pipe
ParserParsePipe(tokens, index) ==
    IF index > Len(tokens) - index THEN Err
    ELSE LiteParsePipe(SubSeq(tokens, index + 1, Len(tokens) - index))

\* The loop of Parser::parse: the lexer at i, the tokens collected, the
\* parser's index in them and the sequence so far.  ParseLoop is an iteration
\* from its start, ParseCollected what follows its collect().
RECURSIVE ParseLoop(_, _, _, _, _)
RECURSIVE ParseCollected(_, _, _, _, _)
ParseCollected(s, i, tokens, at, parsed) ==
    LET a == ParserParseAssignment(tokens, at)
        m == ParserParseCommand(tokens, at)
        p == ParserParsePipe(tokens, at)
    IN  IF tokens = <<>> THEN Ok(parsed)
        ELSE IF a.res = "ok"
        THEN ParseLoop(s, i, tokens, at + 3, Append(parsed, a.v))
        ELSE IF m.res = "panic" THEN Panic
        ELSE IF m.res = "ok"
        THEN ParseLoop(s, i, tokens, Len(tokens), Append(parsed, m.v))
        ELSE IF p.res = "ok"
        THEN ParseLoop(s, i, tokens, Len(tokens), Append(parsed, p.v))
        ELSE p

ParseLoop(s, i, tokens, index, parsed) ==
    IF index = 0 \/ index = Len(tokens)
    THEN LET c == Collect(s, i, <<>>)
         IN  IF c.res # "ok" THEN Err
             ELSE ParseCollected(s, c.idx, c.tokens, 0, parsed)
    ELSE ParseCollected(s, i, tokens, index, parsed)

\* Parser::new(source).parse()
Parse(s) == ParseLoop(Preprocess("legacy", s), 1, <<>>, 0, <<>>)

\* ------------------------------------------------ the front end on its own
\* A source of a few lines, each a comment, a run of ';', a blank line, an
\* assignment or a group with a '|', is parsed by Parser::new(source).parse()
\* and the statements of the Sequence are handed to execute one by one.
MaxLines == 3      \* lines of a source handed to the parser

CommentLine == <<"#", "c">>
SeparatorLine == <<";", ";", ";">>
BlankLine == <<" ">>
AssignXLine == <<"$", "X", "=", "1">>
AssignYLine == <<"$", "Y", "=", "2">>

SourceLines ==
    {CommentLine, SeparatorLine, BlankLine, AssignXLine, AssignYLine,
     <<"a", "|", "b">>, <<"a", " ", "b", "|">>, <<"a", "|">>}

Sources == {JoinLines(ls) : ls \in UNION {[1..n -> SourceLines] : n \in 0..MaxLines}}

ParseInit == ShellInit /\ draft = "legacy" /\ source \in Sources /\ LexerNew

\* The REPL: Parser::new(source).parse(); an Err is reported and the line
\* dropped, a panic ends the shell.
ParseSource ==
    /\ pc = "idle"
    /\ result = "none"
    /\ LET r == Parse(source)
       IN  /\ result' = r.res
           /\ sequence' = IF r.res = "ok" THEN r.v ELSE <<>>
           /\ pc' = IF r.res = "ok" THEN "seq"
                    ELSE IF r.res = "panic" THEN "panicked" ELSE "idle"
    /\ UNCHANGED <<source, toks, lexAt, draft, budget, stages, handler, pipe,
                   vars, cwd,
                   oscwd, procs, fds, ev, trace, pipeLog>>

\* execute, Statement::Sequence: the front statement is popped and executed;
\* an assignment writes the store, and trace records what was executed.
Dispatch ==
    /\ pc = "seq"
    /\ sequence # <<>>
    /\ LET statement == PopFront(sequence).item
       IN  /\ vars' = IF statement.kind = "Assignment"
                      THEN ExecuteAssignment(draft, vars, statement)
                      ELSE vars
           /\ trace' = Append(trace, statement)
    /\ sequence' = PopFront(sequence).rest
    /\ UNCHANGED <<source, toks, lexAt, draft, pc, budget, stages, handler,
                   pipe, cwd,
                   oscwd, procs, fds, result, ev, pipeLog>>

ParseNext == ParseSource \/ Dispatch

ParseSpec == ParseInit /\ [][ParseNext]_allvars

\* --------------------------------------------- the parser on a token group
\* A group of tokens, as Parser::collect leaves it in Parser.tokens, is parsed
\* by the rest of that iteration of Parser::parse.
MaxToks == 4       \* tokens of a group

GroupTokens ==
    {Str("a"), Num(1), Ident("X"), Fd(2), GreaterThan, LessThan, Ampersand,
     Pipe, Equal}

TokenGroups == UNION {[1..n -> GroupTokens] : n \in 1..MaxToks}

GroupInit ==
    ShellInit /\ draft = "legacy" /\ source = <<>> /\ toks \in TokenGroups
              /\ lexAt = 1

ParseGroup ==
    /\ pc = "idle"
    /\ result = "none"
    /\ LET r == ParseCollected(<<>>, 1, toks, 0, <<>>)
       IN  /\ result' = r.res
           /\ sequence' = IF r.res = "ok" THEN r.v ELSE <<>>
           /\ pc' = IF r.res = "ok" THEN "seq"
                    ELSE IF r.res = "panic" THEN "panicked" ELSE "idle"
    /\ UNCHANGED <<source, toks, lexAt, draft, budget, stages, handler, pipe,
                   vars, cwd, oscwd, procs, fds, ev, trace, pipeLog>>

GroupNext == ParseGroup

GroupSpec == GroupInit /\ [][GroupNext]_allvars

\* ------------------------------------------------- the pre-exec hook
\* The closure given to pre_exec in execute_process_command, run in the child
\* between fork and exec.  The child's descriptor table maps a descriptor to
\* what it is open on ("closed" when it is not open); stages holds the command
\* spawned, vars the store cloned for the closure, and trace the table at the
\* fork followed by the table after every iteration of the loop.
MaxRedirects == 2  \* redirects of a command

ChildFds == 0..4

AtFork == [fd \in ChildFds |-> IF fd <= 2 THEN "tty" ELSE "closed"]

HookRedirects ==
    {Redirect(operator, left, right) :
        operator \in {"GreaterThan", "LessThan"},
        left \in {Fd(0), Fd(1), Fd(3)},
        right \in {Str("f"), Ident("X"), Fd(1), Fd(3)}}

\* fs::File::options().create(true).read(true).write(true).open(path), then
\* into_raw_fd(): the lowest descriptor that is not open; Err when none is.
OpenFile(table, path) ==
    LET free == {fd \in ChildFds : table[fd] = "closed"}
    IN  IF free = {} THEN [ok |-> FALSE, table |-> table, fd |-> NoFd]
        ELSE [ok |-> TRUE, table |-> [table EXCEPT ![MinOf(free)] = path],
              fd |-> MinOf(free)]

\* `match redirect.right()`: the descriptor to duplicate, opened when the
\* right side names a file.
RightFd(table, vs, right) ==
    IF right.t = "FileDescriptor" THEN [ok |-> TRUE, table |-> table, fd |-> right.v]
    ELSE IF right.t = "String" THEN OpenFile(table, right.v)
    ELSE IF right.t = "Number" THEN OpenFile(table, Decimal(right.v))
    ELSE IF right.t = "Identifier" /\ ShVarsGet(vs, right.v) # NoVal
    THEN OpenFile(table, ShVarsGet(vs, right.v))
    ELSE [ok |-> FALSE, table |-> table, fd |-> NoFd]

\* libc::dup2(from, onto), its return value dropped: nothing changes when
\* from is not open or onto is no descriptor.
Dup2(table, from, onto) ==
    IF from \notin ChildFds \/ onto \notin ChildFds THEN table
    ELSE IF table[from] = "closed" THEN table
    ELSE [table EXCEPT ![onto] = table[from]]

\* A hook that duplicates the other way for '<'.
HookRedirectDirected(table, vs, redirect) ==
    LET r == RightFd(table, vs, redirect.right)
    IN  IF redirect.left.t # "FileDescriptor" \/ ~r.ok
        THEN [ok |-> FALSE, table |-> r.table]
        ELSE IF redirect.operator = "GreaterThan"
        THEN [ok |-> TRUE, table |-> Dup2(r.table, r.fd, redirect.left.v)]
        ELSE [ok |-> TRUE, table |-> Dup2(r.table, redirect.left.v, r.fd)]

\* An iteration of the loop over the redirects.
HookRedirect(table, vs, redirect) ==
    LET r == RightFd(table, vs, redirect.right)
    IN  IF redirect.left.t # "FileDescriptor" \/ ~r.ok
        THEN [ok |-> FALSE, table |-> r.table]
        ELSE IF redirect.operator = "GreaterThan"
        THEN [ok |-> TRUE, table |-> Dup2(r.table, r.fd, redirect.left.v)]
        ELSE [ok |-> TRUE, table |-> Dup2(r.table, r.fd, redirect.left.v)]

RedirectLists == UNION {[1..n -> HookRedirects] : n \in 0..MaxRedirects}

\* The child right after the fork: the command with its redirects, the clone
\* of the store, the table inherited from the shell.
HookInit ==
    /\ draft \in Drafts
    /\ pc = "idle"
    /\ budget = MaxStmts
    /\ sequence = <<>>
    /\ \E redirects \in RedirectLists :
           stages = <<Command(Str("ls"), <<>>, redirects, FALSE)>>
    /\ handler = <<>>
    /\ pipe = NewPipe
    /\ vars \in {ShVarsNew, [ShVarsNew EXCEPT !["X"] = "ls"]}
    /\ cwd = "/"
    /\ oscwd = "/"
    /\ procs = [p \in Pids |-> "free"]
    /\ fds = {}
    /\ result = "none"
    /\ ev = NoEv("none")
    /\ trace = <<AtFork>>
    /\ pipeLog = <<>>
    /\ source = <<>>
    /\ LexerNew

\* An iteration of `for redirect in &redirects`, or the Ok(()) after the last.
HookStep ==
    /\ result = "none"
    /\ LET redirects == stages[1].redirects
           done == Len(trace) - 1
       IN  IF done = Len(redirects)
           THEN result' = "ok" /\ UNCHANGED trace
           ELSE LET r == HookRedirect(trace[Len(trace)], vars, redirects[done + 1])
                IN  IF r.ok
                    THEN trace' = Append(trace, r.table) /\ UNCHANGED result
                    ELSE result' = "err" /\ UNCHANGED trace
    /\ UNCHANGED <<source, toks, lexAt, draft, pc, budget, sequence, stages,
                   handler, pipe, vars, cwd, oscwd, procs, fds, ev, pipeLog>>

HookNext == HookStep

HookSpec == HookInit /\ [][HookNext]_allvars

\* ----------------------------------------------- the registry on its own
\* ProcessHandler under any calls of push, wait, kill and remove.  trace logs
\* the calls: what was asked, what was returned, the entries whose handle was
\* used by wait, kill or remove (its pid read, waited on, polled, killed or
\* dropped) after ManuallyDrop::drop had run on it, and for a push the entry
\* that get(pid) finds right after it.
RegIdle ==
    UNCHANGED <<source, toks, lexAt, draft, pc, budget, sequence, stages, pipe,
                vars, cwd, oscwd, result, ev, pipeLog>>

RegOp(op, pid, ok, at, got, stale) ==
    [op |-> op, pid |-> pid, ok |-> ok, at |-> at, got |-> got, stale |-> stale]

Dropped(h, n) == {i \in 1..n : h[i].dropped}

\* ProcessHandler::kill from entry i on: every entry reads its pid, and one
\* that reads `pid` is killed and dropped in place; `fails` says whether
\* Child::kill returns an error, which ends the loop after that drop.
RECURSIVE KillFrom(_, _, _, _, _)
KillFrom(i, h, fs, pid, fails) ==
    IF i > Len(h) THEN [ok |-> TRUE, handler |-> h, fds |-> fs, read |-> Len(h)]
    ELSE IF h[i].pid # pid THEN KillFrom(i + 1, h, fs, pid, fails)
    ELSE LET h1 == [h EXCEPT ![i].dropped = TRUE]
         IN  IF fails THEN [ok |-> FALSE, handler |-> h1, fds |-> fs \ {h[i].out},
                            read |-> i]
             ELSE KillFrom(i + 1, h1, fs \ {h[i].out}, pid, fails)

\* ProcessHandler::kill
Kill(h, fs, pid, fails) == KillFrom(1, h, fs, pid, fails)

\* ProcessHandler::remove: the first entry that reads `pid` is taken out of
\* the vector and dropped; Err(NotFound) when none does.
Remove(h, fs, pid) ==
    LET i == Get(h, pid)
    IN  IF i = 0 THEN [ok |-> FALSE, handler |-> h, fds |-> fs, read |-> Len(h)]
        ELSE [ok |-> TRUE,
              handler |-> SubSeq(h, 1, i - 1) \o SubSeq(h, i + 1, Len(h)),
              fds |-> fs \ {h[i].out}, read |-> i]

\* spawn() and push: the operating system gives the child any pid that no
\* live or unreaped process holds.
RegPush ==
    /\ Len(trace) < MaxOps
    /\ \E pid \in {p \in Pids : procs[p] = "free"}, bg \in BOOLEAN,
          out \in {NoFd} \cup (IF Fds \ fds = {} THEN {} ELSE {MinOf(Fds \ fds)}) :
          /\ handler' = Push(handler, pid, bg, out)
          /\ procs' = [procs EXCEPT ![pid] = "live"]
          /\ fds' = fds \cup ({out} \ {NoFd})
          /\ trace' = Append(trace, RegOp("push", pid, TRUE, Len(handler) + 1,
                                          Get(handler', pid), {}))
    /\ RegIdle

RegWait ==
    /\ Len(trace) < MaxOps
    /\ \E ex \in SUBSET Polled(handler) :
          LET w == WaitFrom(1, handler, procs, fds, <<>>, ex)
          IN  /\ handler' = w.handler
              /\ procs' = w.procs
              /\ fds' = w.fds
              /\ trace' = Append(trace, RegOp("wait", 0, TRUE, 0, 0,
                                              Dropped(handler, Len(handler))))
    /\ RegIdle

RegKill ==
    /\ Len(trace) < MaxOps
    /\ \E pid \in Pids, fails \in BOOLEAN :
          LET k == Kill(handler, fds, pid, fails)
          IN  /\ handler' = k.handler
              /\ fds' = k.fds
              /\ trace' = Append(trace, RegOp("kill", pid, k.ok, Get(handler, pid),
                                              0, Dropped(handler, k.read)))
    /\ UNCHANGED procs
    /\ RegIdle

RegRemove ==
    /\ Len(trace) < MaxOps
    /\ \E pid \in Pids :
          LET r == Remove(handler, fds, pid)
          IN  /\ handler' = r.handler
              /\ fds' = r.fds
              /\ trace' = Append(trace, RegOp("remove", pid, r.ok, Get(handler, pid),
                                              0, Dropped(handler, r.read)))
    /\ UNCHANGED procs
    /\ RegIdle

RegNext == RegPush \/ RegWait \/ RegKill \/ RegRemove

RegistrySpec == Init /\ [][RegNext]_allvars

\* ================================================================ claims

\* C1: at the end of every pipeline execution, whether all stages were
\* spawned or a stage failed, the pipe coordinator is Closed and holds no
\* descriptor.
C1_CoordinatorClosedAfterPipeline ==
    (ev.op = "finish" \/ (ev.op = "stage" /\ ev.err)) => pipe = NewPipe

\* C2: once ProcessHandler::wait has returned, the registry holds no
\* foreground entry.
C2_NoForegroundEntryAfterWait ==
    ev.waited => \A i \in 1..Len(handler) : handler[i].bg

\* C3: a single foreground command that was spawned has exited (its handle
\* holds the exit status) when its statement is over.
C3_ForegroundCommandAwaited ==
    (/\ ev.op = "command"
     /\ ~ev.err
     /\ pc # "panicked"
     /\ ev.pushed # 0
     /\ ~handler[ev.pushed].bg) => handler[ev.pushed].status

\* C4: a single command leaves every entry that was in the registry before
\* it as it was: none is awaited, polled or released.
C4_OtherEntriesUntouched ==
    [][(pc = "seq" /\ ev'.op = "command")
         => \A i \in 1..Len(handler) : handler'[i] = handler[i]]_allvars

\* C5: a command whose name matches a builtin spawns no process and pushes
\* nothing to the registry, whether the builtin succeeds or fails.
C5_BuiltinSpawnsNothing ==
    (ev.op \in {"command", "stage"} /\ ev.builtin) => ev.pushed = 0

C7_SpawnedStagesReapedOnFailure ==
    (ev.op = "stage" /\ ev.err)
        => \A l \in 1..Len(pipeLog) : handler[pipeLog[l].idx].status

\* C8: a stage that matches no builtin and spawns nothing makes the pipeline
\* return an error at once, and after that error nothing of the pipeline runs:
\* the next step is the REPL reading a line, with the registry and the
\* processes as the failed stage left them.
C8_FailedStageAbandonsRest ==
    [][/\ (pc = "pipe" /\ ev'.op = "stage" /\ ev'.pushed = 0
             /\ ~ev'.builtin /\ pc' # "panicked")
            => (ev'.err /\ pc' = "idle" /\ result' = "err")
       /\ (ev.op = "stage" /\ ev.err)
            => (/\ ev'.op = "read"
                /\ handler' = handler
                /\ procs' = procs)]_allvars

\* C8 witness: a stage has failed while commands of the pipeline were left.
C8_Witness ==
    /\ ev.op = "stage"
    /\ ev.err
    /\ ev.pushed = 0
    /\ stages # <<>>
    /\ pc = "idle"
    /\ result = "err"

\* C9: a wait leaves a background entry whose child is still running with its
\* handle not released.
C9_RunningBackgroundHandleKept ==
    ev.waited
        => \A i \in 1..Len(handler) :
              (handler[i].bg /\ ~handler[i].status) => ~handler[i].dropped

\* C10: the children of a pipeline are spawned left to right, each pushed
\* behind the one before, and wait reports the entries in registry order: the
\* child of an earlier stage is reported before the child of a later one.
C10_LeftToRight ==
    /\ \A a, b \in 1..Len(pipeLog) :
          a < b => /\ pipeLog[a].stage < pipeLog[b].stage
                   /\ pipeLog[a].idx < pipeLog[b].idx
    /\ ev.waited => \A a, b \in 1..Len(ev.v) : a < b => ev.v[a] < ev.v[b]

\* C11: in a pipeline whose stages so far were all external commands and all
\* spawned, the first child inherits the shell's stdin, every later child has
\* as stdin the read end of the stdout pipe of the child before it, every
\* child but the last has a piped stdout and the last inherits the shell's.
C11_StagesChained ==
    \A l \in 1..Len(pipeLog) :
        (\A j \in 1..l : pipeLog[j].stage = j /\ pipeLog[j].ext)
            => /\ (l = 1) => pipeLog[l].in = NoFd
               /\ (l > 1) => (pipeLog[l].in # NoFd /\ pipeLog[l].in = pipeLog[l - 1].out)
               /\ pipeLog[l].last <=> (pipeLog[l].out = NoFd)

\* C12: the shell state's current directory is the directory the last
\* successful cd resolved (the working directory of the shell process), and a
\* command that is spawned is started in it.
C12_DirectoryFollowsCd ==
    /\ cwd = oscwd
    /\ (ev.op \in {"command", "stage"} /\ ev.pushed # 0) => ev.workdir = oscwd

\* What the store laws say a key holds after a history of operations: the
\* value of the last insert, "null" for an empty one, unless a remove came
\* later; an insert with an empty key counts for nothing.
RECURSIVE Expected(_, _)
Expected(h, k) ==
    IF h = <<>> THEN NoVal
    ELSE LET o == h[Len(h)]
             before == Expected(SubSeq(h, 1, Len(h) - 1), k)
         IN  IF o.key # k \/ k = "" THEN before
             ELSE IF o.op = "remove" THEN NoVal
             ELSE IF o.value = "" THEN "null" ELSE o.value

\* C13: after any sequence of insert and remove, get(k) of a non-empty key is
\* the value last inserted under k, "null" if that value was empty, and
\* nothing if k was removed since or never inserted; len() is the number of
\* keys inserted and not since removed.
C13_StoreLaws ==
    /\ \A k \in Keys \ {""} : ShVarsGet(vars, k) = Expected(trace, k)
    /\ ShVarsLen(vars) = Cardinality({k \in Keys : Expected(trace, k) # NoVal})

\* C14: an insert with an empty key returns an error and leaves the store as
\* it was, its len() included.
C14_EmptyKeyRefused ==
    [][(/\ Len(trace') = Len(trace) + 1
        /\ trace'[Len(trace')].op = "insert"
        /\ trace'[Len(trace')].key = "")
         => (/\ ~trace'[Len(trace')].ok
             /\ vars' = vars
             /\ ShVarsLen(vars') = ShVarsLen(vars))]_allvars

\* C15: the variable store changes only in the step of an Assignment
\* statement: a command, the opening of a pipeline, a stage and the end of a
\* pipeline leave every key and value as they were.
C15_OnlyAssignmentsWrite ==
    [][/\ (vars' # vars) => (pc = "seq" /\ ev'.op = "assign")
       /\ (pc \in {"seq", "pipe"} /\ ev'.op \in {"command", "open", "stage", "finish"})
            => vars' = vars]_allvars

\* C15 witness: a command has spawned a child after an assignment, and the
\* store holds what the assignment left.
C15_Witness ==
    /\ ev.op = "command"
    /\ ev.pushed # 0
    /\ trace = <<1, 2>>
    /\ vars["X"] = "ls"
    /\ ShVarsLen(vars) = 1

\* The text an assignment of the value e is said to store.
TextOf(e) ==
    IF e.t = "Null" THEN "null"
    ELSE IF e.t = "String" THEN e.v
    ELSE IF e.t = "Boolean" THEN (IF e.v THEN "true" ELSE "false")
    ELSE Decimal(e.v)

\* C16: after any sequence of assignments, the lookup of an identifier
\* returns the text of the value last assigned to it: s for String(s), "true"
\* or "false", the decimal form of a Number or FileDescriptor, "null" for Null.
C16_AssignmentStoresText ==
    \A i \in 1..Len(trace) :
        (\A j \in (i + 1)..Len(trace) : trace[j].identifier # trace[i].identifier)
            => ShVarsGet(vars, trace[i].identifier.v) = TextOf(trace[i].value)

\* C10 witness: a pipeline of two spawned stages is over and the wait has
\* reported both children.
C10_Witness ==
    /\ ev.op = "finish"
    /\ ev.waited
    /\ Len(pipeLog) = 2
    /\ \E a, b \in 1..Len(ev.v) :
          a < b /\ ev.v[a] = pipeLog[1].idx /\ ev.v[b] = pipeLog[2].idx

\* C17: preprocess is idempotent: applied to a text it has returned, it
\* returns that text unchanged.
C17_PreprocessIdempotent ==
    Len(trace) = 2 => trace[2] = trace[1]

\* C19: the text returned by preprocess never starts with ';' and never
\* holds two ';' in a row.
C19_SeparatorsCoalesced ==
    \A n \in 1..Len(trace) :
        /\ trace[n] # <<>> => trace[n][1] # ";"
        /\ \A i \in 1..(Len(trace[n]) - 1) : ~(trace[n][i] = ";" /\ trace[n][i + 1] = ";")

\* The statement a line of the source stands for, if it stands for one.
StatementsOf(line) ==
    IF line = AssignXLine THEN <<Assignment(Ident("X"), Num(1))>>
    ELSE IF line = AssignYLine THEN <<Assignment(Ident("Y"), Num(2))>>
    ELSE <<>>

RECURSIVE StatementsOfLines(_)
StatementsOfLines(ls) ==
    IF ls = <<>> THEN <<>> ELSE StatementsOf(ls[1]) \o StatementsOfLines(Tail(ls))

\* C18: when the source is made of comment lines, blank lines, runs of ';'
\* and assignments, the parse succeeds and, once the sequence has been
\* executed, the statements executed are the assignments of the source, each
\* once and in their order, and the store holds what they assigned.
C18_EveryStatementOnceInOrder ==
    (/\ \A n \in 1..Len(Lines(source)) :
            Lines(source)[n] \in {CommentLine, SeparatorLine, BlankLine,
                                  AssignXLine, AssignYLine}
     /\ result # "none"
     /\ sequence = <<>>)
        => /\ result = "ok"
           /\ trace = StatementsOfLines(Lines(source))
           /\ \A n \in 1..Len(Lines(source)) :
                  /\ Lines(source)[n] = AssignXLine => ShVarsGet(vars, "X") = "1"
                  /\ Lines(source)[n] = AssignYLine => ShVarsGet(vars, "Y") = "2"

\* C20: every Pipe the parser produces holds at least two commands.
C20_PipelineHasTwoCommands ==
    /\ \A n \in 1..Len(sequence) :
           sequence[n].kind = "Pipe" => Len(sequence[n].commands) >= 2
    /\ \A n \in 1..Len(trace) :
           trace[n].kind = "Pipe" => Len(trace[n].commands) >= 2

\* The descriptor of the last send that returned Ok, NoFd when there is none.
LastSent(h) ==
    IF \E i \in 1..Len(h) : h[i].op = "send" /\ h[i].ok
    THEN h[CHOOSE i \in 1..Len(h) :
               /\ h[i].op = "send" /\ h[i].ok
               /\ \A j \in (i + 1)..Len(h) : ~(h[j].op = "send" /\ h[j].ok)].fd
    ELSE NoFd

\* C22: send succeeds only when the coordinator is Sendable and holds
\* nothing, and leaves it Recvable holding the descriptor; recv succeeds only
\* when it is Recvable, returns the descriptor last sent and leaves it
\* Sendable holding nothing; a send or recv that fails leaves state and
\* descriptor as they were.
C22_SendRecvTransitions ==
    [][(Len(trace') = Len(trace) + 1) =>
        LET o == trace'[Len(trace')]
        IN  /\ (o.op = "send" /\ o.ok) =>
                   /\ pipe.state = "Sendable" /\ pipe.fd = NoFd
                   /\ pipe' = [state |-> "Recvable", fd |-> o.fd]
            /\ (o.op = "send" /\ pipe.state # "Sendable") => ~o.ok
            /\ (o.op = "recv" /\ o.ok) =>
                   /\ pipe.state = "Recvable"
                   /\ o.fd = LastSent(trace)
                   /\ pipe' = [state |-> "Sendable", fd |-> NoFd]
            /\ (o.op = "recv" /\ pipe.state # "Recvable") => ~o.ok
            /\ (o.op \in {"send", "recv"} /\ ~o.ok) => pipe' = pipe]_allvars

\* C22 witness: a coordinator opened, a send accepted and the descriptor
\* received back.
C22_Witness ==
    /\ Len(trace) = 3
    /\ trace[1].op = "open"
    /\ trace[2].op = "send" /\ trace[2].ok
    /\ trace[3].op = "recv" /\ trace[3].ok /\ trace[3].fd = trace[2].fd
    /\ pipe = OpenPipe

\* C23: the coordinator holds a descriptor exactly when it is Recvable; in
\* Closed and Sendable it holds none.
C23_EndpointOnlyWhenRecvable ==
    (pipe.fd # NoFd) <=> (pipe.state = "Recvable")

\* C23 witness: a coordinator that held a descriptor has been closed.
C23_Witness ==
    /\ Len(trace) = 3
    /\ trace[2].op = "send" /\ trace[2].ok
    /\ trace[3].op = "close" /\ trace[3].ok /\ trace[3].fd = trace[2].fd
    /\ pipe = NewPipe

\* C24: when a pipeline has ended, by its close-and-wait or by the failure
\* of a stage, the shell holds no descriptor beyond 0, 1 and 2: every read
\* end it obtained from a stage has been closed.
C24_NoDescriptorLeftOpen ==
    (ev.op = "finish" \/ (ev.op = "stage" /\ ev.err)) => fds = {}

\* C25: a command whose executable does not exist returns an error of kind
\* NotFound with the message "<name>: command not found", adds nothing to the
\* registry and leaves the shell reading its next line.
C25_MissingExecutableNotFound ==
    [][(ev'.op \in {"command", "stage"} /\ ev'.err /\ ev'.name # NoVal
            /\ ~ev'.found /\ ~ev'.builtin /\ pc' # "panicked")
        => /\ ev'.error = Error("NotFound", ev'.name \o ": command not found")
           /\ ev'.pushed = 0
           /\ Len(handler') = Len(handler)
           /\ pc' = "idle"]_allvars

\* C27: in every state the shell reaches, a command whose name is an
\* Identifier that the store does not hold fails with an error, spawns no
\* process, runs no builtin and leaves the shell state as it was.
C27_UnsetNameFails ==
    \A cmd \in Commands : \A isLast \in BOOLEAN : \A found \in BOOLEAN :
        (cmd.name.t = "Identifier" /\ ShVarsGet(vars, cmd.name.v) = NoVal)
            => LET r == ExecuteCommand(draft, Sh, vars, cmd, isLast, found)
               IN  /\ r.err /\ r.error # NoError
                   /\ r.pushed = 0
                   /\ ~r.builtin /\ ~r.exits /\ r.dir = NoVal
                   /\ r.sh = Sh

\* C27 witness: a command named by an Identifier has just failed for want of a
\* name, with children of earlier commands in the registry.
C27_Witness ==
    /\ ev.op = "command" /\ ev.err /\ ev.name = NoVal /\ ev.error # NoError
    /\ ShVarsGet(vars, "X") = NoVal
    /\ handler # <<>>

\* C21: the parser gives back a statement or an error for every token group;
\* it never aborts, whether an operator ends the group, a descriptor is
\* followed by fewer than two tokens, or a pipeline has an empty stage.
C21_ParserNeverAborts == result # "panic"

\* The commands of a statement, and the tokens of the k-th command of the
\* group: those between the Pipe tokens k - 1 and k.
CommandsOf(statement) ==
    IF statement.kind = "Command" THEN <<statement>>
    ELSE IF statement.kind = "Pipe" THEN statement.commands
    ELSE <<>>

PipePositions == {i \in 1..Len(toks) : toks[i] = Pipe}

NthPipe(k) ==
    CHOOSE i \in PipePositions : Cardinality({j \in PipePositions : j <= i}) = k

RunStart(k) == IF k = 1 THEN 1 ELSE NthPipe(k - 1) + 1

RunEnd(k) == IF k > Cardinality(PipePositions) THEN Len(toks) ELSE NthPipe(k) - 1

\* C26: in a group that parses, an Ampersand is the last token of a command
\* and of nothing else, and a command is in the background exactly when its
\* last token is an Ampersand; a group with an Ampersand anywhere else does
\* not parse.
C26_AmpersandOnlyLast ==
    result = "ok" =>
        \A n \in 1..Len(sequence) :
            LET cs == CommandsOf(sequence[n])
            IN  /\ \A i \in 1..Len(toks) :
                       toks[i] = Ampersand => \E k \in 1..Len(cs) : i = RunEnd(k)
                /\ \A k \in 1..Len(cs) :
                       cs[k].background <=>
                           (RunStart(k) <= RunEnd(k) /\ toks[RunEnd(k)] = Ampersand)

C26_Witness ==
    /\ toks = <<Str("a"), Num(1), Ampersand>>
    /\ result = "ok"
    /\ sequence = <<Command(Str("a"), <<Num(1)>>, <<>>, TRUE)>>

\* The redirect operators, and the number among a command's redirects of the
\* one whose operator is the token at i: every redirect holds one operator.
Operators == {GreaterThan, LessThan}

RedirectAt(k, i) ==
    Cardinality({j \in RunStart(k)..i : toks[j] \in Operators})

\* The token at i is the right side of a redirect: it follows an operator.
IsRightSide(k, i) == i - 1 > RunStart(k) /\ toks[i - 1] \in Operators

\* The operator at i has no descriptor of its own on its left.
IsBare(k, i) ==
    /\ toks[i] \in Operators
    /\ toks[i - 1].t = "FileDescriptor" => IsRightSide(k, i - 1)

\* C29: in a command that parses, a '>' or '<' without a descriptor of its
\* own yields the redirect with left side descriptor 1 for '>' and 0 for '<'
\* and with the token after the operator as right side.
C29_BareRedirectImplicitLeft ==
    result = "ok" =>
        \A n \in 1..Len(sequence) :
            LET cs == CommandsOf(sequence[n])
            IN  \A k \in 1..Len(cs) :
                    \A i \in (RunStart(k) + 1)..RunEnd(k) :
                        IsBare(k, i) =>
                            /\ RedirectAt(k, i) <= Len(cs[k].redirects)
                            /\ cs[k].redirects[RedirectAt(k, i)] =
                                   Redirect(toks[i].t,
                                            Fd(IF toks[i] = GreaterThan THEN 1 ELSE 0),
                                            toks[i + 1])

C29_Witness ==
    /\ toks = <<Str("a"), LessThan, Str("a"), Num(1)>>
    /\ result = "ok"
    /\ sequence = <<Command(Str("a"), <<Num(1)>>,
                            <<Redirect("LessThan", Fd(0), Str("a"))>>, FALSE)>>

\* The places of a command's tokens, after its name, that belong to no
\* redirect and are not the Ampersand.
ArgPositions(k) ==
    {i \in (RunStart(k) + 1)..RunEnd(k) :
        /\ toks[i] \notin Operators \cup {Ampersand}
        /\ toks[i].t # "FileDescriptor"
        /\ ~IsRightSide(k, i)}

\* C30: in a command that parses, no argument is a FileDescriptor; every
\* FileDescriptor token that is not the right side of a redirect is the left
\* side of the redirect made of it and the two tokens after it; and the
\* arguments are, in order, the tokens outside the redirects, so that no token
\* of a redirect is an argument as well.
C30_DescriptorStartsRedirect ==
    result = "ok" =>
        \A n \in 1..Len(sequence) :
            LET cs == CommandsOf(sequence[n])
            IN  \A k \in 1..Len(cs) :
                    /\ \A j \in 1..Len(cs[k].arguments) :
                           cs[k].arguments[j].t # "FileDescriptor"
                    /\ \A i \in (RunStart(k) + 1)..RunEnd(k) :
                           (toks[i].t = "FileDescriptor" /\ ~IsRightSide(k, i)) =>
                               /\ i + 2 <= RunEnd(k)
                               /\ RedirectAt(k, i + 1) <= Len(cs[k].redirects)
                               /\ cs[k].redirects[RedirectAt(k, i + 1)] =
                                      Redirect(toks[i + 1].t, toks[i], toks[i + 2])
                    /\ Len(cs[k].arguments) = Cardinality(ArgPositions(k))
                    /\ \A i \in ArgPositions(k) :
                           cs[k].arguments[Cardinality({j \in ArgPositions(k) : j <= i})]
                               = toks[i]

C30_Witness ==
    /\ toks = <<Str("a"), Fd(2), GreaterThan, Str("a")>>
    /\ result = "ok"
    /\ sequence = <<Command(Str("a"), <<>>,
                            <<Redirect("GreaterThan", Fd(2), Str("a"))>>, FALSE)>>

\* What tokenize has produced so far holds EOF in its last place at most, and
\* holds it there once tokenize has returned the tokens.
EofOnlyLast ==
    /\ \A i \in 1..(Len(toks) - 1) : toks[i] # EOF
    /\ result = "ok" => (toks # <<>> /\ toks[Len(toks)] = EOF)
    /\ result # "ok" => \A i \in 1..Len(toks) : toks[i] # EOF

\* An iteration that adds a token other than EOF has moved the lexer forward.
TokenConsumes ==
    (Len(toks') > Len(toks) /\ toks'[Len(toks')] # EOF) => lexAt' > lexAt

\* C28: tokenize returns on every text, with an error or with tokens of which
\* the last is EOF and no other is, and every token but EOF has consumed at
\* least one character of the text.
C28_TokenizeTerminates ==
    /\ []EofOnlyLast
    /\ [][TokenConsumes]_allvars
    /\ <>(result # "none")

C28_Witness ==
    /\ draft = "legacy"
    /\ source = <<"a", ";", "1">>
    /\ result = "ok"
    /\ toks = <<Str("a"), Semicolon, Num(1), EOF>>
    /\ lexAt = 4

\* The integer a text of digits after an optional sign stands for.
SignedValue(cs) ==
    IF cs[1] = "-" THEN 0 - ParseDigits(Tail(cs))
    ELSE IF cs[1] = "+" THEN ParseDigits(Tail(cs))
    ELSE ParseDigits(cs)

\* C31: when the whole text is a bareword that parses as a signed integer,
\* tokenize returns the Number of that value, then EOF.
C31_SignedIntegerIsNumber ==
    (result # "none" /\ IsInteger(source)) =>
        (result = "ok" /\ toks = <<Num(SignedValue(source)), EOF>>)

\* The descriptor a right side stands for in a table and the table with it
\* open: the right side itself when it is a descriptor, else the lowest
\* descriptor that is closed, opened on the file named.
PathOf(right) ==
    IF right.t = "String" THEN right.v
    ELSE IF right.t = "Identifier" THEN vars[right.v]
    ELSE Decimal(right.v)

Opened(table, right) ==
    IF right.t = "FileDescriptor" THEN table
    ELSE LET fd == CHOOSE f \in ChildFds :
                       table[f] = "closed" /\ \A g \in 0..(f - 1) : table[g] # "closed"
         IN  [table EXCEPT ![fd] = PathOf(right)]

FromOf(table, right) ==
    IF right.t = "FileDescriptor" THEN right.v
    ELSE CHOOSE f \in ChildFds :
             table[f] = "closed" /\ \A g \in 0..(f - 1) : table[g] # "closed"

\* dup(right -> left) applied to the first n redirects in turn, whatever
\* their operators.
RECURSIVE SequentialDup(_, _)
SequentialDup(redirects, n) ==
    IF n = 0 THEN AtFork
    ELSE LET before == SequentialDup(redirects, n - 1)
             from == FromOf(before, redirects[n].right)
             open == Opened(before, redirects[n].right)
         IN  IF from \in ChildFds /\ open[from] # "closed"
             THEN [open EXCEPT ![redirects[n].left.v] = open[from]]
             ELSE open

\* C32: as long as the hook has not failed, the child's table is the one that
\* dup(right -> left) over the redirects applied so far, in their order,
\* yields, and does not depend on the operators; the left descriptor of the
\* redirect applied last is open on what its right side was open on.
C32_RedirectsInOrder ==
    result # "err" =>
        LET redirects == stages[1].redirects
            n == Len(trace) - 1
            table == trace[Len(trace)]
        IN  /\ table = SequentialDup(redirects, n)
            /\ (n > 0 /\ redirects[n].right.t = "FileDescriptor"
                    /\ trace[n][redirects[n].right.v] # "closed")
                   => table[redirects[n].left.v] = trace[n][redirects[n].right.v]

C32_Witness ==
    /\ result = "ok"
    /\ stages[1].redirects = <<Redirect("GreaterThan", Fd(1), Str("f")),
                               Redirect("LessThan", Fd(1), Ident("X"))>>
    /\ trace[3] = [fd \in ChildFds |->
                      IF fd \in {1, 4} THEN "ls" ELSE IF fd = 3 THEN "f"
                      ELSE IF fd <= 2 THEN "tty" ELSE "closed"]

\* C35: when a step releases a child handle that holds the read end of the
\* child's stdout pipe, that descriptor is still open in the shell: it was not
\* closed before through the stdin of the next stage or by the coordinator.
C35_ReadEndClosedOnce ==
    [][\A i \in 1..Len(handler) :
          (i <= Len(handler') /\ ~handler[i].dropped /\ handler'[i].dropped
              /\ handler[i].out # NoFd)
          => handler[i].out \in fds]_allvars

\* C36: a command that is a statement of its own takes nothing from the
\* coordinator: when the coordinator holds the read end of an earlier
\* pipeline, the step leaves it as it was.
C36_StandaloneInheritsStdin ==
    [][(ev'.op = "command" /\ pipe.state = "Recvable") => pipe' = pipe]_allvars

\* C38: no executor state is reached by a failed unwrap of the coordinator's
\* recv() or send() in execute_process_command.
C38_CoordinatorCallsSucceed == pc # "panicked"

\* C33: kill(pid) returns an error when no entry of the registry holds that
\* pid.
C33_KillUnknownPidFails ==
    \A n \in 1..Len(trace) :
        (trace[n].op = "kill" /\ trace[n].at = 0) => ~trace[n].ok

\* C34: no call on the registry uses a handle that was released before: none
\* reads its pid, waits on it, polls it, kills it or releases it again.
C34_NoReleasedHandleUsed ==
    \A n \in 1..Len(trace) : trace[n].stale = {}

\* C37: right after push has returned a pid, get(pid) finds the entry that
\* was pushed.
C37_GetFindsThePushed ==
    \A n \in 1..Len(trace) : trace[n].op = "push" => trace[n].got = trace[n].at

\* The pieces of a text between the occurrences of the character ch.
RECURSIVE SplitAt(_, _)
SplitAt(s, ch) ==
    IF \E i \in 1..Len(s) : s[i] = ch
    THEN LET i == CHOOSE j \in 1..Len(s) :
                     s[j] = ch /\ \A k \in 1..(j - 1) : s[k] # ch
         IN  <<SubSeq(s, 1, i - 1)>> \o SplitAt(SubSeq(s, i + 1, Len(s)), ch)
    ELSE <<s>>

\* A line up to its first '#'.
CodePart(line) ==
    IF \E i \in 1..Len(line) : line[i] = "#"
    THEN SubSeq(line, 1, (CHOOSE j \in 1..Len(line) :
                              line[j] = "#" /\ \A k \in 1..(j - 1) : line[k] # "#") - 1)
    ELSE line

\* The statements of a text: its pieces between separators that are not blank.
SeparatedBy(s, ch) == SelectSeq(SplitAt(s, ch), LAMBDA l : ~IsBlank(l))

CodeOf(s) ==
    LET ls == SplitAt(s, "\n")
    IN  SelectSeq([n \in 1..Len(ls) |-> CodePart(ls[n])], LAMBDA l : ~IsBlank(l))

\* C39: for a text without quotes and without ';', the statements of the
\* preprocessed text are the lines of the text, each up to its '#', the blank
\* ones left out: the line break that ends a comment still separates.
C39_CommentKeepsBoundary ==
    (Len(trace) >= 1 /\ \A i \in 1..Len(source) : source[i] \notin {"'", ";"})
        => SeparatedBy(trace[1], ";") = CodeOf(source)

\* The positions of a text inside a comment: after a '#' outside quotes and
\* before the character that ends the comment, quotes counted outside
\* comments only.
RECURSIVE InsideFrom(_, _, _, _)
InsideFrom(s, i, is_comment, is_quote) ==
    IF i > Len(s) THEN {}
    ELSE LET c == s[i]
             ends == c \in {"\r", "\n", ";"}
             quote == IF c \in Quotes /\ ~is_comment THEN ~is_quote ELSE is_quote
             comment == ~ends /\ (is_comment \/ (c = "#" /\ ~quote))
         IN  (IF is_comment /\ ~ends THEN {i} ELSE {})
                 \cup InsideFrom(s, i + 1, comment, quote)

InsideComment(s) == InsideFrom(s, 1, FALSE, FALSE)

\* Two texts that differ inside comments only.
SameOutsideComments(s, t) ==
    /\ Len(s) = Len(t)
    /\ InsideComment(s) = InsideComment(t)
    /\ \A i \in 1..Len(s) : s[i] # t[i] => i \in InsideComment(s)

\* C40: a text that differs from the source inside comments only
\* preprocesses to what the source preprocesses to.
C40_CommentTextInert ==
    Len(trace) >= 1 =>
        \A t \in Texts : SameOutsideComments(source, t) => Preprocess(draft, t) = trace[1]

====
